---- MODULE Spec2Model ----
(***************************************************************************)
(* A model of the rscil decoder of CLI (ECMA-335) images: the PE container *)
(* walker, the heap streams, the decode context with its index widths, the *)
(* row decoder's driver and the image facade.  Every component is a small  *)
(* state machine over the fields the code keeps; the component a property  *)
(* is about is run by its own specification (SpecCtx, SpecDecode, ...),    *)
(* the other components' variables staying idle.                           *)
(***************************************************************************)
EXTENDS Integers, Sequences, FiniteSets, TLC

VARIABLES
    pc,                 \* where the running operation stands
    row_count,          \* TableDecodeContext.row_count / PeParser.row_count
    coded_index_sizes,  \* TableDecodeContext.coded_index_sizes
    index_tracker,      \* TableDecodeContext.index_tracker: kind -> next ordinal
    buffer,             \* the bytes under the cursor (0-based offsets are 1-based here)
    position,           \* the cursor's position, in bytes
    overflow_checks,    \* the build: TRUE panics on arithmetic overflow, FALSE wraps
    ret,                \* what the last operation returned
    tables,             \* MetadataStream.tables: kind -> rows in decode order
    count,              \* the heap loaders' running byte count
    strings,            \* StringStream.0: key -> entry
    header,             \* the header in hand: read_dos_stub's 128 bytes, a StreamHeader, the #~ header
    image,              \* the fields of the image kept by PeParser::read
    metadata            \* what the file holds at its metadata root

vars == <<pc, row_count, coded_index_sizes, index_tracker, buffer, position, overflow_checks,
          ret, tables, count, strings, header, image, metadata>>

(***************************************************************************)
(* Bounds of the model.                                                    *)
(***************************************************************************)
\* Row counts are drawn at each width threshold, plus or minus RowDelta.
RowDelta == 1
\* The most rows one table of the image facade holds.
MaxRows == 2

(***************************************************************************)
(* Values shared by the components.                                        *)
(***************************************************************************)
None == [tag |-> "None"]
Panic(msg) == [tag |-> "Panic", msg |-> msg]
Err(msg) == [tag |-> "Err", msg |-> msg]
EmptyMap == <<>>

Some(v) == [tag |-> "Some", value |-> v]
Ok(v) == [tag |-> "Ok", value |-> v]

SetMax(S) == CHOOSE m \in S : \A x \in S : x <= m

(***************************************************************************)
(* The byte cursor: little-endian reads at a position.                     *)
(***************************************************************************)
RECURSIVE from_le_bytes(_)
from_le_bytes(bytes) ==
    IF bytes = <<>> THEN 0
    ELSE Head(bytes) + 256 * from_le_bytes(Tail(bytes))

\* The n bytes at 0-based offset pos.
Slice(buf, pos, n) == SubSeq(buf, pos + 1, pos + n)

\* read_exact fails when fewer than n bytes remain.
CanRead(buf, pos, n) == pos + n <= Len(buf)

(***************************************************************************)
(* Bit operations on unsigned integers.                                    *)
(***************************************************************************)
RECURSIVE BitAnd(_, _)
BitAnd(a, b) ==
    IF a = 0 \/ b = 0 THEN 0
    ELSE (a % 2) * (b % 2) + 2 * BitAnd(a \div 2, b \div 2)

Shr(a, n) == a \div 2^n

(***************************************************************************)
(* u32 values that may reach 2^31 are kept as <<high half, low half>>.     *)
(***************************************************************************)
U32(n) == <<n \div 65536, n % 65536>>

\* x << 1, truncated to 32 bits
Shl1(x) == <<(2 * x[1] + x[2] \div 32768) % 65536, (2 * x[2]) % 65536>>

RECURSIVE ShlWrap(_, _)
ShlWrap(x, n) == IF n = 0 THEN x ELSE ShlWrap(Shl1(x), n - 1)

\* Rust's u32 << n: a shift of 32 or more panics where overflow is checked
\* and shifts by n mod 32 where it is not.
Shl(x, n, checks) ==
    IF n >= 32 /\ checks THEN [panic |-> TRUE, value |-> x]
    ELSE [panic |-> FALSE, value |-> ShlWrap(x, n % 32)]

U32Lt(a, b) == a[1] < b[1] \/ (a[1] = b[1] /\ a[2] < b[2])

U32Ge(a, b) == ~U32Lt(a, b)

\* Rust's u32 + u32: panics past u32::MAX where overflow is checked and
\* wraps where it is not.
U32Add(a, b, checks) ==
    LET lo == a[2] + b[2]
        hi == a[1] + b[1] + lo \div 65536
    IN  [panic |-> checks /\ hi >= 65536, value |-> <<hi % 65536, lo % 65536>>]

\* a - b for a >= b
U32Sub(a, b) ==
    LET borrow == IF a[2] < b[2] THEN 1 ELSE 0
    IN  <<a[1] - b[1] - borrow, a[2] - b[2] + 65536 * borrow>>

\* a as u64 + b as u64: the high half is not truncated.
U64Add(a, b) == <<a[1] + b[1] + (a[2] + b[2]) \div 65536, (a[2] + b[2]) % 65536>>

(***************************************************************************)
(* kind.rs: the table kinds and their tags.                                *)
(***************************************************************************)
ToU32 ==
    [Assembly |-> 32, AssemblyOS |-> 34, AssemblyProcessor |-> 33,
     AssemblyRef |-> 35, AssemblyRefOS |-> 37, AssemblyRefProcessor |-> 36,
     ClassLayout |-> 15, Constant |-> 11, CustomAttribute |-> 12,
     DeclSecurity |-> 14, EventMap |-> 18, Event |-> 20, ExportedType |-> 39,
     Field |-> 4, FieldLayout |-> 16, FieldMarshal |-> 13, FieldRVA |-> 29,
     File |-> 38, GenericParam |-> 42, GenericParamConstraint |-> 44,
     ImplMap |-> 28, InterfaceImpl |-> 9, ManifestResource |-> 40,
     MemberRef |-> 10, MethodDef |-> 6, MethodImpl |-> 25,
     MethodSemantics |-> 24, MethodSpec |-> 43, Module |-> 0,
     ModuleRef |-> 26, NestedClass |-> 41, Param |-> 8, Property |-> 23,
     PropertyMap |-> 21, StandAloneSig |-> 17, TypeDef |-> 2, TypeRef |-> 1,
     TypeSpec |-> 27]

TableKind == DOMAIN ToU32

(***************************************************************************)
(* index.rs: the coded-index families.                                     *)
(***************************************************************************)
CodedIndexTag ==
    {"TypeDefOrRef", "HasConstant", "HasCustomAttribute", "HasFieldMarshal",
     "HasDeclSecurity", "MemberRefParent", "HasSemantics", "MethodDefOrRef",
     "MemberForwarded", "Implementation", "CustomAttributeType",
     "ResolutionScope", "TypeOrMethodDef"}

\* CodedIndex::from
CodedIndex(table, index) == [table |-> table, index |-> index]

get_tag_size(tag) ==
    CASE tag = "TypeDefOrRef" -> 2
      [] tag = "HasConstant" -> 2
      [] tag = "HasCustomAttribute" -> 5
      [] tag = "HasFieldMarshal" -> 1
      [] tag = "HasDeclSecurity" -> 2
      [] tag = "MemberRefParent" -> 3
      [] tag = "HasSemantics" -> 1
      [] tag = "MethodDefOrRef" -> 1
      [] tag = "MemberForwarded" -> 1
      [] tag = "Implementation" -> 2
      [] tag = "CustomAttributeType" -> 3
      [] tag = "ResolutionScope" -> 2
      [] tag = "TypeOrMethodDef" -> 1

\* What get_table_kind's match yields for a tag value with no arm (a panic).
InvalidTag == "panic: invalid tag"

\* The match of get_table_kind on the cleaned tag value.
MatchTableKind(tag, data) ==
    CASE tag = "TypeDefOrRef" ->
            (CASE data = 0 -> "TypeDef" [] data = 1 -> "TypeRef"
               [] data = 2 -> "TypeSpec" [] OTHER -> InvalidTag)
      [] tag = "HasConstant" ->
            (CASE data = 0 -> "Field" [] data = 1 -> "Param"
               [] data = 2 -> "Property" [] OTHER -> InvalidTag)
      [] tag = "HasCustomAttribute" ->
            (CASE data = 0 -> "MethodDef" [] data = 1 -> "Field"
               [] data = 2 -> "TypeRef" [] data = 3 -> "TypeDef"
               [] data = 4 -> "Param" [] data = 5 -> "InterfaceImpl"
               [] data = 6 -> "MemberRef" [] data = 7 -> "Module"
               [] data = 9 -> "Property" [] data = 10 -> "Event"
               [] data = 11 -> "StandAloneSig"
               [] data = 12 -> "ModuleRef" [] data = 13 -> "TypeSpec"
               [] data = 14 -> "Assembly" [] data = 15 -> "AssemblyRef"
               [] data = 16 -> "File" [] data = 17 -> "ExportedType"
               [] data = 18 -> "ManifestResource"
               [] data = 19 -> "GenericParam"
               [] data = 20 -> "GenericParamConstraint"
               [] data = 21 -> "MethodSpec" [] OTHER -> InvalidTag)
      [] tag = "HasFieldMarshal" ->
            (CASE data = 0 -> "Field" [] data = 1 -> "Param" [] OTHER -> InvalidTag)
      [] tag = "HasDeclSecurity" ->
            (CASE data = 0 -> "TypeDef" [] data = 1 -> "MethodDef"
               [] data = 2 -> "Assembly" [] OTHER -> InvalidTag)
      [] tag = "MemberRefParent" ->
            (CASE data = 0 -> "TypeDef" [] data = 1 -> "TypeRef"
               [] data = 2 -> "ModuleRef" [] data = 3 -> "MethodDef"
               [] data = 4 -> "TypeSpec" [] OTHER -> InvalidTag)
      [] tag = "HasSemantics" ->
            (CASE data = 0 -> "Event" [] data = 1 -> "Property" [] OTHER -> InvalidTag)
      [] tag = "MethodDefOrRef" ->
            (CASE data = 0 -> "MethodDef" [] data = 1 -> "MemberRef" [] OTHER -> InvalidTag)
      [] tag = "MemberForwarded" ->
            (CASE data = 0 -> "Field" [] data = 1 -> "MethodDef" [] OTHER -> InvalidTag)
      [] tag = "Implementation" ->
            (CASE data = 0 -> "File" [] data = 1 -> "AssemblyRef"
               [] data = 2 -> "ExportedType" [] OTHER -> InvalidTag)
      [] tag = "CustomAttributeType" ->
            (CASE data = 2 -> "MethodDef" [] data = 3 -> "MemberRef" [] OTHER -> InvalidTag)
      [] tag = "ResolutionScope" ->
            (CASE data = 0 -> "Module" [] data = 1 -> "ModuleRef"
               [] data = 2 -> "AssemblyRef" [] data = 3 -> "TypeRef" [] OTHER -> InvalidTag)
      [] tag = "TypeOrMethodDef" ->
            (CASE data = 0 -> "TypeDef" [] data = 1 -> "MethodDef" [] OTHER -> InvalidTag)

GetTableKindUnmasked(tag, data) == MatchTableKind(tag, data)

\* CodedIndexTag::get_table_kind: clean data with the tag size, then match.
get_table_kind(tag, data) ==
    MatchTableKind(tag, BitAnd(data, Shr(255, 8 - get_tag_size(tag))))

\* The split of a raw coded index: CodedIndexTag::decode after the read.
SplitCodedIndex(tag, index) ==
    LET data == Shr(index, get_tag_size(tag))
        table == get_table_kind(tag, BitAnd(index, 255))
    IN  IF table = InvalidTag THEN Panic("Invalid tag")
        ELSE Ok(CodedIndex(table, data))

\* row_count.get(&kind).unwrap_or(&0)
get_row_count(rc, kind) == IF kind \in DOMAIN rc THEN rc[kind] ELSE 0

\* a.max(b.max(...)) over the tables one family names
RowMax(rc, kinds) == SetMax({get_row_count(rc, k) : k \in kinds})

is_big_index(tag, rc) ==
    CASE tag = "TypeDefOrRef" ->
            RowMax(rc, {"TypeDef", "TypeRef", "TypeSpec"}) > 2^(16 - 2)
      [] tag = "HasConstant" ->
            RowMax(rc, {"Field", "Param", "Property"}) > 2^(16 - 2)
      [] tag = "HasCustomAttribute" ->
            RowMax(rc, {"MethodDef", "Field", "TypeRef", "TypeDef", "Param",
                        "InterfaceImpl", "MemberRef", "Module", "Property",
                        "Event", "StandAloneSig", "ModuleRef", "TypeSpec",
                        "Assembly", "AssemblyRef", "File", "ExportedType",
                        "ManifestResource", "GenericParam",
                        "GenericParamConstraint", "MethodSpec"}) > 2^(16 - 5)
      [] tag = "HasFieldMarshal" ->
            RowMax(rc, {"Field", "Param"}) > 2^(16 - 1)
      [] tag = "HasDeclSecurity" ->
            RowMax(rc, {"TypeDef", "MethodDef", "Assembly"}) > 2^(16 - 2)
      [] tag = "MemberRefParent" ->
            RowMax(rc, {"TypeDef", "TypeRef", "ModuleRef", "MethodDef",
                        "TypeSpec"}) > 2^(16 - 3)
      [] tag = "HasSemantics" ->
            RowMax(rc, {"Event", "Property"}) > 2^(16 - 1)
      [] tag = "MethodDefOrRef" ->
            RowMax(rc, {"MethodDef", "MemberRef"}) > 2^(16 - 1)
      [] tag = "MemberForwarded" ->
            RowMax(rc, {"Field", "MethodDef"}) > 2^(16 - 1)
      [] tag = "Implementation" ->
            RowMax(rc, {"File", "AssemblyRef", "ExportedType"}) > 2^(16 - 2)
      [] tag = "CustomAttributeType" ->
            RowMax(rc, {"MethodDef", "MemberRef"}) > 2^(16 - 3)
      [] tag = "ResolutionScope" ->
            RowMax(rc, {"Module", "ModuleRef", "AssemblyRef", "TypeRef"})
                > 2^(16 - 2)
      [] tag = "TypeOrMethodDef" ->
            RowMax(rc, {"TypeDef", "MethodDef"}) > 2^(16 - 1)

(***************************************************************************)
(* decode_context.rs: the decode context.                                  *)
(***************************************************************************)
compute_coded_index_sizes(rc) ==
    [tag \in CodedIndexTag |-> IF is_big_index(tag, rc) THEN 4 ELSE 2]

\* coded_index_sizes.get(&tag).unwrap_or(&0)
get_coded_index_size(sizes, tag) ==
    IF tag \in DOMAIN sizes THEN sizes[tag] ELSE 0

GetTableIndexSizeInclusive(rc, kind) ==
    IF get_row_count(rc, kind) <= 65536 THEN 2 ELSE 4

get_table_index_size(rc, kind) ==
    IF get_row_count(rc, kind) < 65536 THEN 2 ELSE 4

(***************************************************************************)
(* Idle values of the components a specification does not run.             *)
(***************************************************************************)
ctxVars == <<row_count, coded_index_sizes, index_tracker>>
cursorVars == <<buffer, position, overflow_checks>>
heapVars == <<count, strings>>
loadVars == <<header, image, metadata>>

CtxIdle ==
    row_count = EmptyMap /\ coded_index_sizes = EmptyMap /\ index_tracker = EmptyMap
CursorIdle == buffer = <<>> /\ position = 0 /\ overflow_checks = FALSE
HeapIdle == count = 0 /\ strings = EmptyMap
LoadIdle == header = <<>> /\ image = EmptyMap /\ metadata = EmptyMap
TablesIdle == tables = EmptyMap

(***************************************************************************)
(* SpecCtx: TableDecodeContext::new over the row counts of an image.       *)
(***************************************************************************)
\* The width thresholds 2^(16-k) of the families (k = 0 is the simple index).
Thresholds == {2^(16 - get_tag_size(tag)) : tag \in CodedIndexTag} \cup {2^16}

RowCountSamples == {t + d : t \in Thresholds, d \in (0 - RowDelta)..RowDelta}

\* The row-count maps with at most two tables present.
RowCountMaps ==
    {(t1 :> c1) @@ (t2 :> c2) :
        <<t1, c1, t2, c2>> \in
            TableKind \X RowCountSamples \X TableKind \X RowCountSamples}

InitCtx ==
    /\ pc = "new"
    /\ row_count \in RowCountMaps
    /\ coded_index_sizes = EmptyMap
    /\ index_tracker = EmptyMap
    /\ ret = None
    /\ CursorIdle /\ HeapIdle /\ LoadIdle /\ TablesIdle

\* TableDecodeContext::new
NewContext ==
    /\ pc = "new"
    /\ coded_index_sizes' = compute_coded_index_sizes(row_count)
    /\ pc' = "ready"
    /\ UNCHANGED <<row_count, index_tracker, ret, tables, cursorVars, heapVars,
                   loadVars>>

NextCtx == NewContext

SpecCtx == InitCtx /\ [][NextCtx]_vars

\* The candidate tables of each family, as the specification tabulates them.
FamilyTables ==
    [TypeDefOrRef |-> {"TypeDef", "TypeRef", "TypeSpec"},
     HasConstant |-> {"Field", "Param", "Property"},
     HasCustomAttribute |->
        {"MethodDef", "Field", "TypeRef", "TypeDef", "Param", "InterfaceImpl",
         "MemberRef", "Module", "Property", "Event", "StandAloneSig",
         "ModuleRef", "TypeSpec", "Assembly", "AssemblyRef", "File",
         "ExportedType", "ManifestResource", "GenericParam",
         "GenericParamConstraint", "MethodSpec"},
     HasFieldMarshal |-> {"Field", "Param"},
     HasDeclSecurity |-> {"TypeDef", "MethodDef", "Assembly"},
     MemberRefParent |->
        {"TypeDef", "TypeRef", "ModuleRef", "MethodDef", "TypeSpec"},
     HasSemantics |-> {"Event", "Property"},
     MethodDefOrRef |-> {"MethodDef", "MemberRef"},
     MemberForwarded |-> {"Field", "MethodDef"},
     Implementation |-> {"File", "AssemblyRef", "ExportedType"},
     CustomAttributeType |-> {"MethodDef", "MemberRef"},
     ResolutionScope |-> {"Module", "ModuleRef", "AssemblyRef", "TypeRef"},
     TypeOrMethodDef |-> {"TypeDef", "MethodDef"}]

\* The tag bits of each family, as the specification tabulates them.
FamilyTagBits ==
    [TypeDefOrRef |-> 2, HasConstant |-> 2, HasCustomAttribute |-> 5,
     HasFieldMarshal |-> 1, HasDeclSecurity |-> 2, MemberRefParent |-> 3,
     HasSemantics |-> 1, MethodDefOrRef |-> 1, MemberForwarded |-> 1,
     Implementation |-> 2, CustomAttributeType |-> 3, ResolutionScope |-> 2,
     TypeOrMethodDef |-> 1]

FamilyMax(tag) == SetMax({get_row_count(row_count, k) : k \in FamilyTables[tag]})

\* C1: for each of the 13 families with k tag bits, the computed width is 2
\* bytes exactly when the largest row count among the family's candidate
\* tables is below 2^(16-k), and 4 bytes otherwise (4 at equality).
C1_WidthAtThreshold ==
    pc = "ready" =>
        \A tag \in CodedIndexTag :
            get_coded_index_size(coded_index_sizes, tag)
                = IF FamilyMax(tag) < 2^(16 - FamilyTagBits[tag]) THEN 2 ELSE 4

\* C1, away from the threshold: the width the code computes is 2 below
\* 2^(16-k) and 4 above it.
C1_WidthOffThreshold ==
    pc = "ready" =>
        \A tag \in CodedIndexTag :
            FamilyMax(tag) # 2^(16 - FamilyTagBits[tag]) =>
                get_coded_index_size(coded_index_sizes, tag)
                    = IF FamilyMax(tag) < 2^(16 - FamilyTagBits[tag])
                      THEN 2 ELSE 4

(***************************************************************************)
(* SpecIndex: reading one simple index (kind.rs TableKind::read and        *)
(* parser.rs PeParser::read_table_index) against the row counts.           *)
(***************************************************************************)
IndexRowSamples == {2^16 + d : d \in (0 - RowDelta)..RowDelta} \cup {0, 1}

IndexRowMaps ==
    {EmptyMap} \cup {t :> c : <<t, c>> \in TableKind \X IndexRowSamples}

IndexBuffers == {<<1, 0, 0, 0>>, <<255, 255, 1, 0>>, <<2, 1>>}

InitIndex ==
    /\ pc = "ready"
    /\ row_count \in IndexRowMaps
    /\ coded_index_sizes = compute_coded_index_sizes(row_count)
    /\ index_tracker = EmptyMap
    /\ buffer \in IndexBuffers
    /\ position = 0
    /\ overflow_checks = FALSE
    /\ ret = None
    /\ HeapIdle /\ LoadIdle /\ TablesIdle

\* The outcome of reading an index of `size` bytes for table `kind`.
ReadIndexOfSize(op, kind, size) ==
    IF CanRead(buffer, position, size)
    THEN /\ ret' = [op |-> op, arg |-> kind,
                    out |-> Ok(CodedIndex(kind,
                                from_le_bytes(Slice(buffer, position, size))))]
         /\ position' = position + size
    ELSE /\ ret' = [op |-> op, arg |-> kind, out |-> Err("UnexpectedEof")]
         /\ position' = position

\* kind.rs TableKind::read
TableKindRead(kind) ==
    /\ pc = "ready"
    /\ ReadIndexOfSize("TableKind::read", kind,
            IF get_table_index_size(row_count, kind) = 2 THEN 2 ELSE 4)
    /\ pc' = "read"
    /\ UNCHANGED <<ctxVars, buffer, overflow_checks, tables, heapVars, loadVars>>

\* parser.rs PeParser::read_table_index
ReadTableIndex(kind) ==
    /\ pc = "ready"
    /\ ReadIndexOfSize("read_table_index", kind,
            IF get_row_count(row_count, kind) < 65536 THEN 2 ELSE 4)
    /\ pc' = "read"
    /\ UNCHANGED <<ctxVars, buffer, overflow_checks, tables, heapVars, loadVars>>

NextIndex ==
    \/ \E kind \in TableKind : TableKindRead(kind)
    \/ \E kind \in TableKind : ReadTableIndex(kind)

SpecIndex == InitIndex /\ [][NextIndex]_vars

\* The rows the map declares for a table; a table absent from it has none.
DeclaredRows(kind) == IF kind \in DOMAIN row_count THEN row_count[kind] ELSE 0

\* C8: a simple index into table T is read as 2 bytes exactly when
\* row_count[T] < 2^16 and as 4 bytes exactly when row_count[T] >= 2^16.
C8_SimpleIndexWidth ==
    (pc = "read" /\ ret.out.tag = "Ok") =>
        /\ position = 2 <=> DeclaredRows(ret.arg) < 2^16
        /\ position = 4 <=> DeclaredRows(ret.arg) >= 2^16
        /\ ret.out.value.table = ret.arg

\* C8 witness: a 4-byte read for a table of exactly 2^16 rows.
C8_Witness ==
    /\ pc = "read" /\ ret.out.tag = "Ok"
    /\ DeclaredRows(ret.arg) = 2^16 /\ position = 4

(***************************************************************************)
(* SpecDecode: decoding one coded index (index.rs CodedIndexTag::decode    *)
(* and parser.rs PeParser::read_coded_index) from the bytes at the cursor. *)
(***************************************************************************)
\* No table has rows, or every table has 2^16 rows: all widths 2, or all 4.
DecodeRowMaps == {EmptyMap, [k \in TableKind |-> 65536]}

\* Four bytes with every value of the low byte; high bytes keep the value
\* of a 4-byte read below 2^31.
DecodeBuffers ==
    {<<b0, b1, b2, b3>> :
        <<b0, b1, b2, b3>> \in (0..255) \X {0, 200} \X {0, 1} \X {0, 127}}
    \cup {<<3>>}

InitDecode ==
    /\ pc = "ready"
    /\ row_count \in DecodeRowMaps
    /\ coded_index_sizes = compute_coded_index_sizes(row_count)
    /\ index_tracker = EmptyMap
    /\ buffer \in DecodeBuffers
    /\ position = 0
    /\ overflow_checks = FALSE
    /\ ret = None
    /\ HeapIdle /\ LoadIdle /\ TablesIdle

\* Read `size` bytes as the raw index, then split it.
ReadCodedOfSize(op, tag, size) ==
    IF CanRead(buffer, position, size)
    THEN /\ ret' = [op |-> op, arg |-> tag,
                    out |-> SplitCodedIndex(tag,
                                from_le_bytes(Slice(buffer, position, size)))]
         /\ position' = position + size
    ELSE /\ ret' = [op |-> op, arg |-> tag, out |-> Err("UnexpectedEof")]
         /\ position' = position

\* index.rs CodedIndexTag::decode
CodedIndexDecode(tag) ==
    /\ pc = "ready"
    /\ ReadCodedOfSize("CodedIndexTag::decode", tag,
            IF get_coded_index_size(coded_index_sizes, tag) = 4 THEN 4 ELSE 2)
    /\ pc' = "decoded"
    /\ UNCHANGED <<ctxVars, buffer, overflow_checks, tables, heapVars, loadVars>>

\* parser.rs PeParser::read_coded_index
ReadCodedIndex(tag) ==
    /\ pc = "ready"
    /\ ReadCodedOfSize("read_coded_index", tag,
            IF is_big_index(tag, row_count) THEN 4 ELSE 2)
    /\ pc' = "decoded"
    /\ UNCHANGED <<ctxVars, buffer, overflow_checks, tables, heapVars, loadVars>>

NextDecode ==
    \/ \E tag \in CodedIndexTag : CodedIndexDecode(tag)
    \/ \E tag \in CodedIndexTag : ReadCodedIndex(tag)

SpecDecode == InitDecode /\ [][NextDecode]_vars

\* The tag-to-table mapping of each family (tag values with no table left out).
TagMapping ==
    [TypeDefOrRef |->
        (0 :> "TypeDef" @@ 1 :> "TypeRef" @@ 2 :> "TypeSpec"),
     HasConstant |->
        (0 :> "Field" @@ 1 :> "Param" @@ 2 :> "Property"),
     HasCustomAttribute |->
        (0 :> "MethodDef" @@ 1 :> "Field" @@ 2 :> "TypeRef"
         @@ 3 :> "TypeDef" @@ 4 :> "Param"
         @@ 5 :> "InterfaceImpl" @@ 6 :> "MemberRef"
         @@ 7 :> "Module" @@ 9 :> "Property" @@ 10 :> "Event"
         @@ 11 :> "StandAloneSig" @@ 12 :> "ModuleRef"
         @@ 13 :> "TypeSpec" @@ 14 :> "Assembly"
         @@ 15 :> "AssemblyRef" @@ 16 :> "File"
         @@ 17 :> "ExportedType" @@ 18 :> "ManifestResource"
         @@ 19 :> "GenericParam"
         @@ 20 :> "GenericParamConstraint" @@ 21 :> "MethodSpec"),
     HasFieldMarshal |->
        (0 :> "Field" @@ 1 :> "Param"),
     HasDeclSecurity |->
        (0 :> "TypeDef" @@ 1 :> "MethodDef" @@ 2 :> "Assembly"),
     MemberRefParent |->
        (0 :> "TypeDef" @@ 1 :> "TypeRef" @@ 2 :> "ModuleRef"
         @@ 3 :> "MethodDef" @@ 4 :> "TypeSpec"),
     HasSemantics |->
        (0 :> "Event" @@ 1 :> "Property"),
     MethodDefOrRef |->
        (0 :> "MethodDef" @@ 1 :> "MemberRef"),
     MemberForwarded |->
        (0 :> "Field" @@ 1 :> "MethodDef"),
     Implementation |->
        (0 :> "File" @@ 1 :> "AssemblyRef" @@ 2 :> "ExportedType"),
     CustomAttributeType |->
        (2 :> "MethodDef" @@ 3 :> "MemberRef"),
     ResolutionScope |->
        (0 :> "Module" @@ 1 :> "ModuleRef" @@ 2 :> "AssemblyRef"
         @@ 3 :> "TypeRef"),
     TypeOrMethodDef |->
        (0 :> "TypeDef" @@ 1 :> "MethodDef")]

\* The raw wire value: the bytes the decode consumed, little-endian.
WireValue == from_le_bytes(SubSeq(buffer, 1, position))

C2_WitnessFatal ==
    /\ pc = "decoded" /\ ret.arg = "CustomAttributeType"
    /\ WireValue % 8 = 4 /\ ret.out.tag = "Panic"

(***************************************************************************)
(* SpecImage: the image facade's table getters (image.rs define_getter)    *)
(* over the decoded tables of a loaded image.                              *)
(***************************************************************************)
\* The tables image.rs defines a getter for.
GetterKinds ==
    {"MethodDef", "TypeDef", "TypeRef", "Field", "Param", "InterfaceImpl",
     "MemberRef", "AssemblyRef"}

\* The n-th row decoded for a table.
Row(kind, n) == [kind |-> kind, n |-> n]

\* The rows of a table of n rows, in decode order.
Rows(kind, n) == [i \in 1..n |-> Row(kind, i)]

\* The decoded tables of images in which at most two tables have rows.
ImageTables ==
    {[k \in GetterKinds |->
        Rows(k, IF k = t1 THEN n1 ELSE IF k = t2 THEN n2 ELSE 0)] :
        <<t1, n1, t2, n2>> \in
            GetterKinds \X (0..MaxRows) \X GetterKinds \X (0..MaxRows)}

\* The ordinals asked for: null, every row, one past the end, and i32::MAX.
OrdinalSamples == (0..(MaxRows + 1)) \cup {2147483647}

\* MetadataStream::get_table
get_table(tbls, kind) == tbls[kind]

\* Vec::get on a 0-based position
VecGet(v, i) == IF i < Len(v) THEN Some(v[i + 1]) ELSE None

DefineGetterZeroBased(tbls, kind, index) ==
    IF index = 0 THEN None ELSE VecGet(get_table(tbls, kind), index)

\* image.rs define_getter!
define_getter(tbls, kind, index) ==
    IF index = 0 THEN None ELSE VecGet(get_table(tbls, kind), index - 1)

InitImage ==
    /\ pc = "loaded"
    /\ tables \in ImageTables
    /\ ret = None
    /\ CtxIdle /\ CursorIdle /\ HeapIdle /\ LoadIdle

\* One call of a getter: get_method_def, get_type_def, ..., get_assembly_ref.
Getter(kind, index) ==
    /\ pc = "loaded"
    /\ ret' = [op |-> "getter", kind |-> kind, arg |-> index,
               out |-> define_getter(tables, kind, index)]
    /\ pc' = "got"
    /\ UNCHANGED <<tables, ctxVars, cursorVars, heapVars, loadVars>>

NextImage == \E kind \in GetterKinds, index \in OrdinalSamples : Getter(kind, index)

SpecImage == InitImage /\ [][NextImage]_vars

read_blob_length(buf, pos, checks) ==
    IF ~CanRead(buf, pos, 1)
    THEN [out |-> Err("UnexpectedEof"), position |-> pos]
    ELSE
    LET first == buf[pos + 1] IN
    IF BitAnd(first, 128) = 0
    THEN [out |-> Ok([length |-> U32(first), bytes_read |-> 1]),
          position |-> pos + 1]
    ELSE IF BitAnd(first, 192) = 128
    THEN IF ~CanRead(buf, pos + 1, 1)
         THEN [out |-> Err("UnexpectedEof"), position |-> pos + 1]
         ELSE LET length == Shl(U32(BitAnd(first, 63)), 8 + buf[pos + 2], checks)
              IN  [out |-> IF length.panic
                           THEN Panic("attempt to shift left with overflow")
                           ELSE Ok([length |-> length.value, bytes_read |-> 2]),
                   position |-> pos + 2]
    ELSE IF BitAnd(first, 224) = 192
    THEN IF ~CanRead(buf, pos + 1, 3)
         THEN [out |-> Panic("unwrap on UnexpectedEof"), position |-> pos + 1]
         ELSE LET bytes == Slice(buf, pos + 1, 3)
                  s1 == Shl(U32(BitAnd(first, 31)), 24 + bytes[1], checks)
                  s2 == Shl(s1.value, 16 + bytes[2], checks)
                  s3 == Shl(s2.value, 8 + bytes[3], checks)
              IN  [out |-> IF s1.panic \/ s2.panic \/ s3.panic
                           THEN Panic("attempt to shift left with overflow")
                           ELSE Ok([length |-> s3.value, bytes_read |-> 4]),
                   position |-> pos + 4]
    ELSE [out |-> Err("Invalid blob length"), position |-> pos + 1]

(***************************************************************************)
(* SpecBlob: one call of read_blob_length on the bytes at the cursor.      *)
(***************************************************************************)
BlobFirstBytes == {0, 1, 3, 127, 128, 129, 191, 192, 193, 223, 224, 255}
BlobRestBytes == {0, 1, 64, 128, 255}

\* Up to four bytes: a first byte of every form, then sampled bytes.
BlobBuffers ==
    {SubSeq(<<b0, b1, b2, b3>>, 1, n) :
        <<b0, b1, b2, b3, n>> \in
            BlobFirstBytes \X BlobRestBytes \X BlobRestBytes \X BlobRestBytes
                \X (0..4)}

InitBlob ==
    /\ pc = "ready"
    /\ buffer \in BlobBuffers
    /\ position = 0
    /\ overflow_checks \in BOOLEAN
    /\ ret = None
    /\ CtxIdle /\ HeapIdle /\ LoadIdle /\ TablesIdle

ReadBlobLength ==
    /\ pc = "ready"
    /\ LET r == read_blob_length(buffer, position, overflow_checks)
       IN  /\ ret' = [op |-> "read_blob_length", out |-> r.out]
           /\ position' = r.position
    /\ pc' = "blob_length_read"
    /\ UNCHANGED <<buffer, overflow_checks, ctxVars, tables, heapVars, loadVars>>

NextBlob == ReadBlobLength

SpecBlob == InitBlob /\ [][NextBlob]_vars

\* The length a complete compressed integer at the start of the buffer
\* encodes, and the bytes it takes.
BlobFormBytes == IF buffer[1] < 128 THEN 1 ELSE IF buffer[1] < 192 THEN 2 ELSE 4

BlobFormValue ==
    IF buffer[1] < 128 THEN U32(buffer[1])
    ELSE IF buffer[1] < 192 THEN U32((buffer[1] % 64) * 256 + buffer[2])
    ELSE <<(buffer[1] % 32) * 256 + buffer[2], buffer[3] * 256 + buffer[4]>>

BlobFormComplete ==
    /\ Len(buffer) >= 1 /\ buffer[1] < 224 /\ Len(buffer) >= BlobFormBytes

\* C4: the reader returns b0 consuming 1 byte for 0xxxxxxx,
\* ((b0 & 0x3F) << 8) | b1 consuming 2 bytes for 10xxxxxx, and
\* ((b0 & 0x1F) << 24) | (b1 << 16) | (b2 << 8) | b3 consuming 4 bytes for
\* 110xxxxx; so [0x80,0x80] decodes to 0x80 and [0xC0,0x00,0x40,0x00] to 0x4000.
C4_BlobLengthValue ==
    (pc = "blob_length_read" /\ BlobFormComplete) =>
        /\ ret.out = Ok([length |-> BlobFormValue, bytes_read |-> BlobFormBytes])
        /\ position = BlobFormBytes

\* C4, the bytes consumed alone: a complete form that returns a length has
\* consumed 1, 2 or 4 bytes as its first byte says.
C4_BlobLengthBytes ==
    (pc = "blob_length_read" /\ BlobFormComplete /\ ret.out.tag = "Ok") =>
        ret.out.value.bytes_read = BlobFormBytes /\ position = BlobFormBytes

\* C4, the one-byte form alone: 0xxxxxxx returns b0 consuming 1 byte.
C4_BlobLengthOneByte ==
    (pc = "blob_length_read" /\ Len(buffer) >= 1 /\ buffer[1] < 128) =>
        ret.out = Ok([length |-> U32(buffer[1]), bytes_read |-> 1])

(***************************************************************************)
(* streams.rs StringStream: the #Strings heap as a map of entries.         *)
(***************************************************************************)
\* BufRead::read_until(0, ..): the bytes from the cursor up to and including
\* the next 0, or to the end of the file; empty at the end of the file.
RECURSIVE read_until(_, _)
read_until(buf, pos) ==
    IF pos >= Len(buf) THEN <<>>
    ELSE IF buf[pos + 1] = 0 THEN <<0>>
    ELSE <<buf[pos + 1]>> \o read_until(buf, pos + 1)

\* String::from_utf8 on the sampled bytes: ASCII is valid, and 0xFF occurs
\* in no UTF-8 sequence.
from_utf8_ok(bytes) == \A i \in 1..Len(bytes) : bytes[i] < 128

Insert(map, key, value) ==
    [k \in DOMAIN map \cup {key} |-> IF k = key THEN value ELSE map[k]]

StringStreamGet(map, index) ==
    IF index \in DOMAIN map THEN Some(map[index]) ELSE None

(***************************************************************************)
(* SpecStrings: StringStream::from, one loop iteration per step, then get. *)
(***************************************************************************)
MaxStream == 3
StreamBytes == {0, 65, 66, 255}

RECURSIVE SeqsUpTo(_, _)
SeqsUpTo(S, n) ==
    IF n = 0 THEN {<<>>}
    ELSE LET shorter == SeqsUpTo(S, n - 1)
         IN  shorter \cup {Append(q, b) : <<q, b>> \in shorter \X S}

InitStrings ==
    /\ pc = "strings_loop"
    /\ buffer \in SeqsUpTo(StreamBytes, MaxStream)
    /\ position = 0
    /\ header \in [size : 0..MaxStream]
    /\ count = 0
    /\ strings = EmptyMap
    /\ ret = None
    /\ overflow_checks = FALSE
    /\ CtxIdle /\ TablesIdle /\ image = EmptyMap /\ metadata = EmptyMap

\* while count < header.size { count += read_until(..); insert(count, ..) }
StringStreamFromStep ==
    /\ pc = "strings_loop"
    /\ count < header.size
    /\ LET string == read_until(buffer, position)
       IN  /\ position' = position + Len(string)
           /\ count' = count + Len(string)
           /\ IF from_utf8_ok(string)
              THEN /\ strings' = Insert(strings, count + Len(string), string)
                   /\ UNCHANGED <<pc, ret>>
              ELSE /\ pc' = "failed"
                   /\ ret' = [op |-> "StringStream::from",
                              out |-> Panic("unwrap on FromUtf8Error")]
                   /\ UNCHANGED strings
    /\ UNCHANGED <<buffer, overflow_checks, loadVars, ctxVars, tables>>

StringStreamFromDone ==
    /\ pc = "strings_loop"
    /\ count >= header.size
    /\ pc' = "strings_loaded"
    /\ ret' = [op |-> "StringStream::from", out |-> Ok("StringStream")]
    /\ UNCHANGED <<cursorVars, heapVars, loadVars, ctxVars, tables>>

StringStreamGetCall(index) ==
    /\ pc = "strings_loaded"
    /\ pc' = "string_got"
    /\ ret' = [op |-> "StringStream::get", arg |-> index,
               out |-> StringStreamGet(strings, index)]
    /\ UNCHANGED <<cursorVars, heapVars, loadVars, ctxVars, tables>>

\* image.rs get_string: self.streams.strings.get(index.0).unwrap()
get_string(map, index) ==
    IF StringStreamGet(map, index) = None THEN Panic("unwrap on None")
    ELSE Ok(StringStreamGet(map, index).value)

GetString(index) ==
    /\ pc = "strings_loaded"
    /\ pc' = "string_returned"
    /\ ret' = [op |-> "PeImage::get_string", arg |-> index,
               out |-> get_string(strings, index)]
    /\ UNCHANGED <<cursorVars, heapVars, loadVars, ctxVars, tables>>

NextStrings ==
    \/ StringStreamFromStep
    \/ StringStreamFromDone
    \/ \E index \in 0..MaxStream : StringStreamGetCall(index)
    \/ \E index \in 0..MaxStream : GetString(index)

SpecStrings == InitStrings /\ [][NextStrings]_vars

\* The loader runs on: a turn of the loop, its exit and the calls that
\* follow are taken whenever they change the state.
SpecStringsFair == SpecStrings /\ WF_vars(NextStrings)

\* The offsets below the stream size at which an entry starts: 0, and the
\* offset after every terminator.
EntryStarts ==
    {o \in 0..(header.size - 1) : o = 0 \/ (o <= Len(buffer) /\ buffer[o] = 0)}

\* The entry that starts at offset o, without its terminator.
RECURSIVE EntryAt(_)
EntryAt(o) ==
    IF o >= Len(buffer) \/ buffer[o + 1] = 0 THEN <<>>
    ELSE <<buffer[o + 1]>> \o EntryAt(o + 1)

WithoutTerminator(string) ==
    IF Len(string) > 0 /\ string[Len(string)] = 0
    THEN SubSeq(string, 1, Len(string) - 1) ELSE string

\* C5: after the #Strings stream is loaded every entry is stored under the
\* offset of its first byte: lookup(o) is the entry that starts at o, and
\* lookup(0) the first, empty entry.
C5_StringsKeyedByStart ==
    (pc = "strings_loaded" /\ Len(buffer) >= header.size) =>
        \A o \in EntryStarts :
            /\ o \in DOMAIN strings
            /\ WithoutTerminator(strings[o]) = EntryAt(o)

\* C5, as the code has it: every entry is stored under the offset just past
\* its last byte, with the terminator it read kept.
C5_StringsKeyedByEnd ==
    pc = "strings_loaded" =>
        \A k \in DOMAIN strings :
            /\ k >= 1 /\ Len(strings[k]) >= 1
            /\ strings[k] = SubSeq(buffer, k - Len(strings[k]) + 1, k)

\* C5, the call: lookup(0) misses on a loaded stream that begins with the
\* empty entry.
C5_LookupZeroMisses ==
    (pc = "string_got" /\ ret.arg = 0 /\ header.size > 0) => ret.out = None

(***************************************************************************)
(* tables.rs Table::read and the loop of the #~ stream that drives it.     *)
(***************************************************************************)
\* kind.rs from_u32: the kind with this number, if any.
from_u32(index) ==
    IF \E k \in TableKind : ToU32[k] = index
    THEN Some(CHOOSE k \in TableKind : ToU32[k] = index)
    ELSE None

RECURSIVE SortedSeq(_)
SortedSeq(S) ==
    IF S = {} THEN <<>>
    ELSE LET m == CHOOSE x \in S : \A y \in S : x <= y
         IN  <<m>> \o SortedSeq(S \ {m})

\* The set bits from the highest down.
FromBitmaskDescending(valid) ==
    IF \E i \in valid : from_u32(i) = None
    THEN Panic("unwrap on None")
    ELSE LET bits == SortedSeq(valid)
         IN  Ok([i \in 1..Len(bits) |-> from_u32(bits[Len(bits) + 1 - i]).value])

\* The set bits that number a table, the others passed over.
FromBitmaskSkipping(valid) ==
    LET bits == SortedSeq({i \in valid : from_u32(i) # None})
    IN  Ok([i \in 1..Len(bits) |-> from_u32(bits[i]).value])

\* kind.rs from_bitmask: the kinds of the set bits in bit order; the unwrap
\* panics on a set bit that numbers no table.
from_bitmask(valid) ==
    IF \E i \in valid : from_u32(i) = None
    THEN Panic("unwrap on None")
    ELSE LET bits == SortedSeq(valid)
         IN  Ok([i \in 1..Len(bits) |-> from_u32(bits[i]).value])

\* T::read_from: the next row of the file, or UnexpectedEof.  A row is the
\* unit of the cursor here; its columns are not modelled.
RowReadFrom(buf, pos, kind) ==
    IF CanRead(buf, pos, 1)
    THEN [out |-> Ok(Row(kind, buf[pos + 1])), position |-> pos + 1]
    ELSE [out |-> Err("UnexpectedEof"), position |-> pos]

read_rows(buf, pos, kind, rows) ==
    IF CanRead(buf, pos, rows)
    THEN [out |-> Ok([i \in 1..rows |-> Row(kind, buf[pos + i])]),
          position |-> pos + rows]
    ELSE [out |-> Err("UnexpectedEof"), position |-> Len(buf)]

\* An Assembly table of two rows is read as one row, like a table of one.
read_single_row(buf, pos, kind, rows) ==
    IF rows <= 0 THEN [out |-> Ok(None), position |-> pos]
    ELSE LET r == RowReadFrom(buf, pos, kind)
         IN  [out |-> IF r.out.tag = "Ok" THEN Ok(Some(r.out.value)) ELSE r.out,
              position |-> r.position]

Unimplemented == {"AssemblyOS", "AssemblyProcessor", "AssemblyRefOS",
                  "AssemblyRefProcessor"}

\* Table::read: Assembly through read_single_row, Module as one row whatever
\* the declared count, four kinds unimplemented, the rest through read_rows.
TableRead(buf, pos, kind, rows) ==
    IF kind = "Assembly" THEN read_single_row(buf, pos, kind, rows)
    ELSE IF kind \in Unimplemented
    THEN [out |-> Panic("not implemented"), position |-> pos]
    ELSE IF kind = "Module" THEN RowReadFrom(buf, pos, kind)
    ELSE read_rows(buf, pos, kind, rows)

(***************************************************************************)
(* SpecTables: the tables of a #~ stream, one table per step.              *)
(***************************************************************************)
\* Module, TypeDef, Assembly, AssemblyOS, AssemblyRef, and a bit that
\* numbers no table.
ValidBitSamples == {0, 2, 32, 34, 35, 63}

ValidSets == {V \in SUBSET ValidBitSamples : Cardinality(V) <= 2}

\* The file after the row counts: no row, one row, or rows to spare.
TableBuffers == {[i \in 1..n |-> i] : n \in {0, 1, 2 * MaxRows}}

InitTables ==
    /\ pc = "tables_start"
    /\ \E V \in ValidSets :
          header \in [valid : {V}, rows : [1..Cardinality(V) -> 0..MaxRows]]
    /\ buffer \in TableBuffers
    /\ position = 0
    /\ count = 0
    /\ tables = EmptyMap
    /\ ret = None
    /\ overflow_checks = FALSE
    /\ CtxIdle /\ strings = EmptyMap /\ image = EmptyMap /\ metadata = EmptyMap

TableKinds == from_bitmask(header.valid).value

FromBitmask ==
    /\ pc = "tables_start"
    /\ IF from_bitmask(header.valid).tag = "Ok"
       THEN pc' = "tables_loop" /\ UNCHANGED ret
       ELSE /\ pc' = "failed"
            /\ ret' = [op |-> "from_bitmask", out |-> from_bitmask(header.valid)]
    /\ UNCHANGED <<cursorVars, heapVars, loadVars, ctxVars, tables>>

TableReadStep ==
    /\ pc = "tables_loop"
    /\ count < Len(TableKinds)
    /\ LET kind == TableKinds[count + 1]
           r == TableRead(buffer, position, kind, header.rows[count + 1])
       IN  /\ position' = r.position
           /\ IF r.out.tag = "Ok"
              THEN /\ tables' = Insert(tables, kind, r.out.value)
                   /\ count' = count + 1
                   /\ UNCHANGED <<pc, ret>>
              ELSE /\ pc' = "failed"
                   /\ ret' = [op |-> "Table::read", kind |-> kind, out |-> r.out]
                   /\ UNCHANGED <<tables, count>>
    /\ UNCHANGED <<buffer, overflow_checks, strings, loadVars, ctxVars>>

TablesDone ==
    /\ pc = "tables_loop"
    /\ count = Len(TableKinds)
    /\ pc' = "tables_loaded"
    /\ ret' = [op |-> "tables", out |-> Ok("tables")]
    /\ UNCHANGED <<cursorVars, heapVars, loadVars, ctxVars, tables>>

NextTables == FromBitmask \/ TableReadStep \/ TablesDone

SpecTables == InitTables /\ [][NextTables]_vars

\* The rows the stream declares for a table whose Valid bit is set.
DeclaredFor(kind) ==
    header.rows[CHOOSE i \in 1..Len(TableKinds) : TableKinds[i] = kind]

Declares(kind) == ToU32[kind] \in header.valid

\* C7: a stream that declares two or more Assembly rows, or other than one
\* Module row, is rejected at read time and no tables are produced.
C7_CardinalityRejected ==
    pc = "tables_loaded" =>
        /\ Declares("Assembly") => DeclaredFor("Assembly") <= 1
        /\ Declares("Module") => DeclaredFor("Module") = 1

\* C7, what the code does instead: the loaded Assembly table holds at most
\* one row and the loaded Module table exactly one, whatever was declared.
C7_SingleRowKept ==
    pc = "tables_loaded" =>
        /\ Declares("Assembly") =>
              tables["Assembly"].tag = (IF DeclaredFor("Assembly") = 0
                                        THEN "None" ELSE "Some")
        /\ Declares("Module") => tables["Module"].kind = "Module"

(***************************************************************************)
(* parser.rs get_address: the file offset of an RVA.                       *)
(***************************************************************************)
RECURSIVE GetAddressFrom(_, _, _, _)
GetAddressFrom(sections, i, rva, checks) ==
    IF i > Len(sections) THEN Panic("RVA not found in any section")
    ELSE
    LET section == sections[i] IN
    IF U32Ge(rva, section.virtual_address)
    THEN LET end == U32Add(section.virtual_address, section.virtual_size, checks)
         IN  IF end.panic THEN Panic("attempt to add with overflow")
             ELSE IF U32Lt(rva, end.value)
             THEN Ok(U64Add(section.pointer_to_raw_data,
                            U32Sub(rva, section.virtual_address)))
             ELSE GetAddressFrom(sections, i + 1, rva, checks)
    ELSE GetAddressFrom(sections, i + 1, rva, checks)

get_address(sections, rva, checks) == GetAddressFrom(sections, 1, rva, checks)

(***************************************************************************)
(* SpecRva: get_address over a section table and an RVA.                   *)
(***************************************************************************)
MaxSections == 2

\* Sections at 0x2000 and at 0xFFFFFFF0, empty, small and page-sized.
SectionSamples ==
    [virtual_address : {U32(8192), <<65535, 65520>>},
     virtual_size : {U32(0), U32(32), U32(4096)},
     pointer_to_raw_data : {U32(512), <<65535, 65535>>}]

RvaSamples ==
    {U32(0), U32(16), U32(8191), U32(8192), U32(8208), U32(8223), U32(8224),
     U32(12287), U32(12288), <<65535, 65519>>, <<65535, 65528>>, <<65535, 65535>>}

InitRva ==
    /\ pc = "sections_read"
    /\ image \in [sections : SeqsUpTo(SectionSamples, MaxSections)]
    /\ overflow_checks \in BOOLEAN
    /\ ret = None
    /\ buffer = <<>> /\ position = 0 /\ header = <<>> /\ metadata = EmptyMap
    /\ CtxIdle /\ HeapIdle /\ TablesIdle

GetAddress(rva) ==
    /\ pc = "sections_read"
    /\ pc' = "address_got"
    /\ ret' = [op |-> "get_address", arg |-> rva,
               out |-> get_address(image.sections, rva, overflow_checks)]
    /\ UNCHANGED <<cursorVars, heapVars, loadVars, ctxVars, tables>>

NextRva == \E rva \in RvaSamples : GetAddress(rva)

SpecRva == InitRva /\ [][NextRva]_vars

\* va <= rva < va + vsize with the sum not wrapping: rva - va < vsize.
SectionContains(section, rva) ==
    /\ U32Ge(rva, section.virtual_address)
    /\ U32Lt(U32Sub(rva, section.virtual_address), section.virtual_size)

MatchingSections ==
    {i \in 1..Len(image.sections) : SectionContains(image.sections[i], ret.arg)}

OffsetIn(section, rva) ==
    U64Add(section.pointer_to_raw_data, U32Sub(rva, section.virtual_address))

\* C6: for every section table and RVA, resolution returns
\* pointer_to_raw_data + (rva - va) of a section with va <= rva < va + vsize
\* (the sum not wrapping), and fails when no section satisfies that.
C6_RvaResolution ==
    pc = "address_got" =>
        IF MatchingSections = {} THEN ret.out.tag = "Panic"
        ELSE \E i \in MatchingSections :
                ret.out = Ok(OffsetIn(image.sections[i], ret.arg))

\* C6, the half the code keeps: an offset that is returned is that of a
\* section containing the RVA.
C6_RvaSound ==
    (pc = "address_got" /\ ret.out.tag = "Ok") =>
        \E i \in MatchingSections :
            ret.out = Ok(OffsetIn(image.sections[i], ret.arg))

\* C6, away from the end of the address space: where no section's
\* va + vsize passes u32::MAX the claim holds as stated.
C6_RvaNoWrap ==
    (pc = "address_got"
        /\ \A i \in 1..Len(image.sections) :
              ~U32Add(image.sections[i].virtual_address,
                      image.sections[i].virtual_size, TRUE).panic) =>
        IF MatchingSections = {} THEN ret.out.tag = "Panic"
        ELSE \E i \in MatchingSections :
                ret.out = Ok(OffsetIn(image.sections[i], ret.arg))

(***************************************************************************)
(* headers.rs, section_header.rs: the fixed-layout headers, field by field.*)
(* Only the fields PeParser::read goes on to use are kept.                 *)
(***************************************************************************)
u16_from_le_bytes(slice, start) == from_le_bytes(SubSeq(slice, start + 1, start + 2))

u32_from_le_bytes(slice, start) ==
    <<u16_from_le_bytes(slice, start + 2), u16_from_le_bytes(slice, start)>>

PeHeaderFrom(slice) ==
    [machine |-> u16_from_le_bytes(slice, 0),
     number_of_sections |-> u16_from_le_bytes(slice, 2),
     optional_header_size |-> u16_from_le_bytes(slice, 16)]

\* magic is stored as read; nothing compares it with 0x10B.
StandardFieldsFrom(slice) == [magic |-> u16_from_le_bytes(slice, 0)]

DataDirectoryFrom(slice, start) ==
    [rva |-> u32_from_le_bytes(slice, start),
     size |-> u32_from_le_bytes(slice, start + 4)]

DataDirectoriesFrom(slice) == [cli_header |-> DataDirectoryFrom(slice, 112)]

PeOptionalHeaderFrom(slice) ==
    [standard_fields |-> StandardFieldsFrom(SubSeq(slice, 1, 28)),
     data_directories |-> DataDirectoriesFrom(SubSeq(slice, 97, 224))]

SectionHeaderFrom(slice) ==
    [virtual_size |-> u32_from_le_bytes(slice, 8),
     virtual_address |-> u32_from_le_bytes(slice, 12),
     pointer_to_raw_data |-> u32_from_le_bytes(slice, 20)]

CliHeaderFrom(slice) == [meta_data |-> DataDirectoryFrom(slice, 8)]

(***************************************************************************)
(* parser.rs: the DOS stub and the steps of PeParser::read.                *)
(***************************************************************************)
DOS_STUB_SIZE == 128

DOS_STUB ==
    <<77, 90, 144, 0, 3, 0, 0, 0, 4, 0, 0, 0, 255, 255, 0, 0,
      184, 0, 0, 0, 0, 0, 0, 0, 64, 0, 0, 0, 0, 0, 0, 0,
      0, 0, 0, 0, 0, 0, 0, 0, 0, 0, 0, 0, 0, 0, 0, 0,
      0, 0, 0, 0, 0, 0, 0, 0, 0, 0, 0, 0, 0, 0, 0, 0,
      14, 31, 186, 14, 0, 180, 9, 205, 33, 184, 1, 76, 205, 33, 84, 104,
      105, 115, 32, 112, 114, 111, 103, 114, 97, 109, 32, 99, 97, 110, 110, 111,
      116, 32, 98, 101, 32, 114, 117, 110, 32, 105, 110, 32, 68, 79, 83, 32,
      109, 111, 100, 101, 46, 13, 13, 10, 36, 0, 0, 0, 0, 0, 0, 0>>
PE_SIGNATURE == <<80, 69, 0, 0>>

\* header[..0x3c] != DOS_STUB[..0x3c] || header[0x40..] != DOS_STUB[0x40..],
\* negated; DosStubMatchesWhole compares the lfanew bytes as well.
DosStubMatchesWhole(hdr) == hdr = DOS_STUB

DosStubMatches(hdr) ==
    /\ SubSeq(hdr, 1, 60) = SubSeq(DOS_STUB, 1, 60)
    /\ SubSeq(hdr, 65, DOS_STUB_SIZE) = SubSeq(DOS_STUB, 65, DOS_STUB_SIZE)

read_dos_stub(buf, pos) ==
    IF ~CanRead(buf, pos, DOS_STUB_SIZE)
    THEN [out |-> Err("UnexpectedEof"), header |-> <<>>, position |-> pos]
    ELSE
    LET hdr == Slice(buf, pos, DOS_STUB_SIZE)
        at == pos + DOS_STUB_SIZE
    IN  IF ~DosStubMatches(hdr)
        THEN [out |-> Err("Invalid DOS header"), header |-> hdr, position |-> at]
        ELSE IF ~CanRead(buf, at, 4)
        THEN [out |-> Err("UnexpectedEof"), header |-> hdr, position |-> at]
        ELSE IF Slice(buf, at, 4) # PE_SIGNATURE
        THEN [out |-> Err("Invalid PE signature"), header |-> hdr,
              position |-> at + 4]
        ELSE [out |-> Ok("unit"), header |-> hdr, position |-> at + 4]

\* The file offsets met here fit an integer.
Offset(wide) == wide[1] * 65536 + wide[2]

Required == {"#Strings", "#US", "#Blob", "#~"}

Fail(op, out) == pc' = "failed" /\ ret' = [op |-> op, out |-> out]

Pass(op, at) == pc' = at /\ ret' = [op |-> op, out |-> Ok("unit")]

(***************************************************************************)
(* SpecLoad: PeParser::read, one reader per step, over sampled files.      *)
(***************************************************************************)
MaxFaults == 2

LE16(n) == <<n % 256, n \div 256>>

LE32(u) == LE16(u[2]) \o LE16(u[1])

Zeros(n) == [i \in 1..n |-> 0]

\* A file that loads: the stub, PE\0\0, an I386 PE header, a 224-byte
\* optional header with magic 0x10B, one section at RVA 0x2000 holding the
\* CLI header, and a metadata root with the BSJB signature and four streams.
BaseParams ==
    [stub |-> 0, lfanew |-> <<0, 0, 0, 0>>, signature |-> PE_SIGNATURE,
     machine |-> 332, optional_header_size |-> 224, magic |-> 267,
     number_of_sections |-> 1, cli_rva |-> U32(8192), md_rva |-> U32(8264),
     length |-> 1000, md_signature |-> 1112167234, streams |-> Required]

\* What a sampled file may hold in each place.  stub is the 1-based index
\* of a stub byte that is off by one, or 0; length cuts the file short.
LoadParams ==
    [stub : {0, 1, 60, 61, 64, 65, 128},
     lfanew : {<<0, 0, 0, 0>>, <<128, 0, 0, 0>>, <<255, 255, 255, 255>>},
     signature : {PE_SIGNATURE, <<80, 69, 0, 1>>},
     machine : {332, 34404},
     optional_header_size : {224, 100, 240},
     magic : {267, 523, 0},
     number_of_sections : {1, 0},
     cli_rva : {U32(8192), U32(36864)},
     md_rva : {U32(8264), U32(36864)},
     length : {1000, 0, 100, 130, 140, 200, 420},
     md_signature : {1112167234, 0},
     streams : {Required, Required \ {"#~"}}]

\* lfanew is free: any value of it is a sound file.
Faults(p) ==
    Cardinality({f \in DOMAIN BaseParams \ {"lfanew"} : p[f] # BaseParams[f]})

DosBytes(p) ==
    [i \in 1..DOS_STUB_SIZE |->
        IF i \in 61..64 /\ p.stub # i THEN p.lfanew[i - 60]
        ELSE IF i = p.stub THEN (DOS_STUB[i] + 1) % 256
        ELSE DOS_STUB[i]]

PeHeaderBytes(p) ==
    LE16(p.machine) \o LE16(p.number_of_sections) \o Zeros(12)
        \o LE16(p.optional_header_size) \o LE16(0)

OptionalHeaderBytes(p) ==
    LET whole == LE16(p.magic) \o Zeros(206) \o LE32(p.cli_rva)
                    \o LE32(U32(72)) \o Zeros(8)
    IN  IF p.optional_header_size <= 224
        THEN SubSeq(whole, 1, p.optional_header_size)
        ELSE whole \o Zeros(p.optional_header_size - 224)

HeadersEnd(p) == 152 + p.optional_header_size + 40 * p.number_of_sections

SectionBytes(p) ==
    Zeros(8) \o LE32(U32(4096)) \o LE32(U32(8192)) \o LE32(U32(512))
        \o LE32(U32(HeadersEnd(p))) \o Zeros(16)

CliHeaderBytes(p) ==
    LE32(U32(72)) \o LE16(2) \o LE16(5) \o LE32(p.md_rva) \o LE32(U32(0))
        \o Zeros(56)

FileBytes(p) ==
    LET whole == DosBytes(p) \o p.signature \o PeHeaderBytes(p)
                    \o OptionalHeaderBytes(p)
                    \o (IF p.number_of_sections = 1 THEN SectionBytes(p) ELSE <<>>)
                    \o CliHeaderBytes(p)
    IN  SubSeq(whole, 1, IF p.length < Len(whole) THEN p.length ELSE Len(whole))

InitLoad ==
    /\ pc = "start"
    /\ \E p \in LoadParams :
          /\ Faults(p) <= MaxFaults
          /\ buffer = FileBytes(p)
          /\ metadata = [signature |-> p.md_signature, streams |-> p.streams]
    /\ position = 0
    /\ overflow_checks \in BOOLEAN
    /\ header = <<>>
    /\ image = EmptyMap
    /\ ret = None
    /\ CtxIdle /\ HeapIdle /\ TablesIdle

ReadDosStub ==
    /\ pc = "start"
    /\ LET r == read_dos_stub(buffer, position)
       IN  /\ header' = r.header
           /\ position' = r.position
           /\ ret' = [op |-> "read_dos_stub", out |-> r.out]
           /\ pc' = IF r.out.tag = "Ok" THEN "dos_stub_read" ELSE "failed"
    /\ UNCHANGED <<buffer, overflow_checks, image, metadata, ctxVars, heapVars, tables>>

\* read_pe_header, and the assert on the machine that follows it in read.
ReadPeHeader ==
    /\ pc = "dos_stub_read"
    /\ IF ~CanRead(buffer, position, 20)
       THEN Fail("read_pe_header", Err("UnexpectedEof")) /\ UNCHANGED <<image, position>>
       ELSE LET hdr == PeHeaderFrom(Slice(buffer, position, 20))
            IN  /\ position' = position + 20
                /\ IF hdr.machine # 332
                   THEN Fail("read", Panic("Invalid machine type")) /\ UNCHANGED image
                   ELSE /\ Pass("read_pe_header", "pe_header_read")
                        /\ image' = Insert(image, "pe_header", hdr)
    /\ UNCHANGED <<buffer, overflow_checks, header, metadata, ctxVars, heapVars, tables>>

ReadPeOptionalHeader ==
    /\ pc = "pe_header_read"
    /\ LET size == image.pe_header.optional_header_size
       IN  IF ~CanRead(buffer, position, size)
           THEN /\ Fail("read_pe_optional_header", Err("UnexpectedEof"))
                /\ UNCHANGED <<image, position>>
           ELSE /\ position' = position + size
                /\ IF size < 224
                   THEN /\ Fail("read_pe_optional_header",
                                Panic("range end index 224 out of range"))
                        /\ UNCHANGED image
                   ELSE /\ Pass("read_pe_optional_header", "optional_header_read")
                        /\ image' = Insert(image, "optional_header",
                              PeOptionalHeaderFrom(
                                  SubSeq(Slice(buffer, position, size), 1, 224)))
    /\ UNCHANGED <<buffer, overflow_checks, header, metadata, ctxVars, heapVars, tables>>

ReadSectionHeader ==
    /\ pc = "optional_header_read"
    /\ LET n == image.pe_header.number_of_sections
       IN  IF ~CanRead(buffer, position, 40 * n)
           THEN /\ Fail("read_section_header", Err("UnexpectedEof"))
                /\ UNCHANGED <<image, position>>
           ELSE /\ position' = position + 40 * n
                /\ Pass("read_section_header", "section_headers_read")
                /\ image' = Insert(image, "sections",
                      [i \in 1..n |->
                          SectionHeaderFrom(Slice(buffer, position + 40 * (i - 1), 40))])
    /\ UNCHANGED <<buffer, overflow_checks, header, metadata, ctxVars, heapVars, tables>>

\* seek_rva to the CLI header's RVA, then its 72 bytes.
ReadCliHeader ==
    /\ pc = "section_headers_read"
    /\ LET at == get_address(image.sections,
                     image.optional_header.data_directories.cli_header.rva,
                     overflow_checks)
       IN  IF at.tag # "Ok"
           THEN Fail("seek_rva", at) /\ UNCHANGED <<image, position>>
           ELSE IF ~CanRead(buffer, Offset(at.value), 72)
           THEN /\ Fail("read_cli_header", Err("UnexpectedEof"))
                /\ position' = Offset(at.value)
                /\ UNCHANGED image
           ELSE /\ position' = Offset(at.value) + 72
                /\ Pass("read_cli_header", "cli_header_read")
                /\ image' = Insert(image, "cli_header",
                      CliHeaderFrom(Slice(buffer, Offset(at.value), 72)))
    /\ UNCHANGED <<buffer, overflow_checks, header, metadata, ctxVars, heapVars, tables>>

\* seek_rva to the metadata root, then MetadataHeader::from with its assert
\* on the signature.  The root is sampled by its signature and stream names.
ReadMetadataHeader ==
    /\ pc = "cli_header_read"
    /\ LET at == get_address(image.sections, image.cli_header.meta_data.rva,
                     overflow_checks)
       IN  IF at.tag # "Ok"
           THEN Fail("seek_rva", at) /\ UNCHANGED <<image, position>>
           ELSE /\ position' = Offset(at.value)
                /\ IF metadata.signature # 1112167234
                   THEN /\ Fail("MetadataHeader::from",
                                Panic("Invalid metadata signature"))
                        /\ UNCHANGED image
                   ELSE /\ Pass("read_metadata_header", "metadata_header_read")
                        /\ image' = Insert(image, "metadata_header",
                              [signature |-> metadata.signature,
                               stream_headers |-> metadata.streams])
    /\ UNCHANGED <<buffer, overflow_checks, header, metadata, ctxVars, heapVars, tables>>

\* Streams::from unwraps the four streams it needs; then read returns the
\* image.
ReadStreams ==
    /\ pc = "metadata_header_read"
    /\ IF ~(Required \subseteq image.metadata_header.stream_headers)
       THEN Fail("Streams::from", Panic("unwrap on None")) /\ UNCHANGED image
       ELSE /\ pc' = "loaded"
            /\ ret' = [op |-> "read", out |-> Ok("PeImage")]
            /\ image' = Insert(image, "streams", image.metadata_header.stream_headers)
    /\ UNCHANGED <<cursorVars, header, metadata, ctxVars, heapVars, tables>>

NextLoad ==
    \/ ReadDosStub
    \/ ReadPeHeader
    \/ ReadPeOptionalHeader
    \/ ReadSectionHeader
    \/ ReadCliHeader
    \/ ReadMetadataHeader
    \/ ReadStreams

SpecLoad == InitLoad /\ [][NextLoad]_vars

\* Some byte of the first 128 outside 0x3C..0x3F differs from the stub.
StubDiffers ==
    \E i \in (1..DOS_STUB_SIZE) \ (61..64) : buffer[i] # DOS_STUB[i]

\* C9: the DOS-stub check rejects the load if and only if some byte of the
\* first 128 outside offsets 0x3C..0x3F differs from the fixed stub; the
\* lfanew bytes at 0x3C..0x3F never decide it.
C9_DosStubCheck ==
    (ret # None /\ ret.op = "read_dos_stub" /\ Len(buffer) >= DOS_STUB_SIZE) =>
        (ret.out = Err("Invalid DOS header") <=> StubDiffers)

\* A stub with a nonzero lfanew is accepted.
C9_Witness ==
    /\ ret # None /\ ret.op = "read_dos_stub" /\ ret.out.tag = "Ok"
    /\ SubSeq(buffer, 61, 64) = <<255, 255, 255, 255>>

\* A stub that differs just outside the lfanew bytes is rejected.
C9_WitnessRejected ==
    /\ ret # None /\ ret.op = "read_dos_stub"
    /\ ret.out = Err("Invalid DOS header")
    /\ buffer[65] # DOS_STUB[65]

\* C10: every image whose Standard Fields magic is not 0x10B is rejected
\* during load; no image is produced from it.
C10_MagicRejected ==
    pc = "loaded" => image.optional_header.standard_fields.magic = 267

\* C10, beside it: the machine, which read does check.
C10_MachineChecked ==
    pc = "loaded" => image.pe_header.machine = 332

(***************************************************************************)
(* flags.rs MethodHeaderType and cil.rs MethodBody: the method headers.    *)
(***************************************************************************)
check_flag(value, flag) == BitAnd(value, flag) = flag

\* COR_IL_METHOD_TINY_FORMAT = 0x2, tested as a flag
is_tiny_format(value) == check_flag(value, 2)

\* COR_IL_METHOD_FAT_FORMAT = 0x3
is_fat_format(value) == check_flag(value, 3)

has_more_sects(value) == is_fat_format(value) /\ check_flag(value, 8)

init_locals(value) == is_fat_format(value) /\ check_flag(value, 16)

\* MethodBody has the fields body, max_stack and code_size, and no other.
MethodBodyTinyUnshifted(byte) ==
    [body |-> <<>>, max_stack |-> 8, code_size |-> U32(byte)]

MethodBodyTiny(byte) ==
    [body |-> <<>>, max_stack |-> 8, code_size |-> U32(Shr(byte, 2))]

MethodBodyFat(bytes) ==
    IF Len(bytes) < 12 THEN Panic("index out of bounds")
    ELSE Ok([body |-> <<>>,
             max_stack |-> u16_from_le_bytes(bytes, 2),
             code_size |-> u32_from_le_bytes(bytes, 4)])

(***************************************************************************)
(* SpecMethod: the header predicates and the two MethodBody constructors   *)
(* over the bytes of a method header.                                      *)
(***************************************************************************)
\* Every first byte alone, and fat headers of 12 bytes and one cut short.
MethodHeaderBuffers ==
    {<<b>> : b \in 0..255}
        \cup {<<flags, 48, stack, 0, size, 0, 0, 128, tok, 0, 0, 17>> :
                <<flags, stack, size, tok>> \in
                    {3, 11, 19, 27, 2} \X {0, 8} \X {0, 1, 255} \X {0, 1}}
        \cup {<<3, 48, 8, 0>>}

InitMethod ==
    /\ pc = "ready"
    /\ buffer \in MethodHeaderBuffers
    /\ position = 0
    /\ overflow_checks = FALSE
    /\ ret = None
    /\ CtxIdle /\ HeapIdle /\ LoadIdle /\ TablesIdle

HeaderType ==
    /\ pc = "ready"
    /\ pc' = "classified"
    /\ ret' = [op |-> "MethodHeaderType", arg |-> buffer[1],
               is_tiny_format |-> is_tiny_format(buffer[1]),
               is_fat_format |-> is_fat_format(buffer[1]),
               has_more_sects |-> has_more_sects(buffer[1]),
               init_locals |-> init_locals(buffer[1])]
    /\ UNCHANGED <<cursorVars, heapVars, loadVars, ctxVars, tables>>

Tiny ==
    /\ pc = "ready"
    /\ pc' = "body_made"
    /\ ret' = [op |-> "MethodBody::tiny", arg |-> buffer[1],
               out |-> MethodBodyTiny(buffer[1])]
    /\ UNCHANGED <<cursorVars, heapVars, loadVars, ctxVars, tables>>

Fat ==
    /\ pc = "ready"
    /\ pc' = "body_made"
    /\ ret' = [op |-> "MethodBody::fat", arg |-> buffer[1],
               out |-> MethodBodyFat(buffer)]
    /\ UNCHANGED <<cursorVars, heapVars, loadVars, ctxVars, tables>>

NextMethod == HeaderType \/ Tiny \/ Fat

SpecMethod == InitMethod /\ [][NextMethod]_vars

\* C11: a first byte b is Tiny iff (b & 3) = 2, Fat iff (b & 3) = 3, neither
\* iff (b & 3) is 0 or 1; no byte is both Tiny and Fat.
C11_HeaderClassification ==
    pc = "classified" =>
        /\ ret.is_tiny_format <=> (ret.arg % 4 = 2)
        /\ ret.is_fat_format <=> (ret.arg % 4 = 3)
        /\ ~(ret.is_tiny_format /\ ret.is_fat_format)

\* C11, the parts the predicates keep: Fat iff (b & 3) = 3, and neither
\* iff (b & 3) is 0 or 1.
C11_FatAndNeither ==
    pc = "classified" =>
        /\ ret.is_fat_format <=> (ret.arg % 4 = 3)
        /\ (~ret.is_tiny_format /\ ~ret.is_fat_format) <=> (ret.arg % 4 \in {0, 1})

\* C14: for every Tiny header byte b the body has max_stack = 8,
\* code_size = b >> 2 (so 0..63), and no locals signature token.
C14_TinyBody ==
    (pc = "body_made" /\ ret.op = "MethodBody::tiny" /\ ret.arg % 4 = 2) =>
        /\ ret.out.max_stack = 8
        /\ ret.out.code_size = <<0, ret.arg \div 4>>
        /\ ret.out.code_size[2] \in 0..63
        /\ DOMAIN ret.out = {"body", "max_stack", "code_size"}

\* The Tiny header 0xFE: 63 bytes of code.
C14_Witness ==
    /\ pc = "body_made" /\ ret.op = "MethodBody::tiny" /\ ret.arg = 254
    /\ ret.out.code_size = <<0, 63>>

(***************************************************************************)
(* index.rs: MetadataToken.  A raw token is a u32 kept as <<high half, low *)
(* half>>; its index has 24 bits.                                          *)
(***************************************************************************)
UserString(index) == [tag |-> "UserString", index |-> index]
Table(table, index) == [tag |-> "Table", table |-> table, index |-> index]

\* TableKind::from(u8) is not among the files of the repository.  A byte
\* that is the tag of a kind gives that kind; for any other byte a total
\* conversion can only panic or give a kind with another tag.
TableKindFromU8(table) ==
    IF from_u32(table) # None THEN {Ok(from_u32(table).value)}
    ELSE {Panic("no table kind")} \cup {Ok(k) : k \in TableKind}

\* u8::from(TableKind) is not among the files of the repository: the tag.
U8FromTableKind(table) == ToU32[table]

\* The outcomes of from_raw: (raw >> 24) as u8 and raw & 0x00FFFFFF.
from_raw(raw) ==
    LET table == raw[1] \div 256
        index == (raw[1] % 256) * 65536 + raw[2]
    IN  IF table = 112 THEN {UserString(index)}
        ELSE {IF k.tag = "Ok" THEN Table(k.value, index) ELSE k :
                k \in TableKindFromU8(table)}

\* tag << 24 | index
TokenRaw(table, index) == <<table * 256 + index \div 65536, index % 65536>>

to_raw(token) ==
    IF token.tag = "UserString" THEN TokenRaw(112, token.index)
    ELSE TokenRaw(U8FromTableKind(token.table), token.index)

\* MetadataToken::read: a little-endian u32, then from_raw.
MetadataTokenRead(buf, pos) ==
    IF ~CanRead(buf, pos, 4)
    THEN {[out |-> Err("UnexpectedEof"), position |-> pos]}
    ELSE {[out |-> IF t.tag = "Panic" THEN t ELSE Ok(t), position |-> pos + 4] :
            t \in from_raw(u32_from_le_bytes(buf, pos))}

(***************************************************************************)
(* SpecToken: a token is read from four bytes and encoded again.           *)
(***************************************************************************)
\* Every high byte, over indexes 0, 1, 0xFF0000 and 0xFF0001, and a buffer
\* cut short.
TokenBuffers ==
    {<<b0, 0, b2, table>> : <<b0, b2, table>> \in {0, 1} \X {0, 255} \X (0..255)}
        \cup {<<1, 0, 0>>}

InitToken ==
    /\ pc = "ready"
    /\ buffer \in TokenBuffers
    /\ position = 0
    /\ overflow_checks = FALSE
    /\ ret = None
    /\ CtxIdle /\ HeapIdle /\ LoadIdle /\ TablesIdle

TokenRead ==
    /\ pc = "ready"
    /\ \E r \in MetadataTokenRead(buffer, position) :
        /\ position' = r.position
        /\ ret' = [op |-> "MetadataToken::read", out |-> r.out]
        /\ pc' = IF r.out.tag = "Ok" THEN "token_read" ELSE "failed"
    /\ UNCHANGED <<buffer, overflow_checks, heapVars, loadVars, ctxVars, tables>>

TokenToRaw ==
    /\ pc = "token_read"
    /\ pc' = "token_encoded"
    /\ ret' = [op |-> "to_raw", arg |-> ret.out.value,
               out |-> to_raw(ret.out.value)]
    /\ UNCHANGED <<cursorVars, heapVars, loadVars, ctxVars, tables>>

NextToken == TokenRead \/ TokenToRaw

SpecToken == InitToken /\ [][NextToken]_vars

\* The raw value of the four bytes of the buffer.
RawOfBuffer == u32_from_le_bytes(buffer, 0)

HighByte(raw) == raw[1] \div 256

Low24(raw) == (raw[1] % 256) * 65536 + raw[2]

\* C15: every raw u32 decodes to UserString(raw & 0x00FFFFFF) when
\* raw >> 24 = 0x70 and otherwise to Table(the kind whose tag is raw >> 24,
\* raw & 0x00FFFFFF), and to_raw of the decoded token is raw again.
C15_TokenRoundTrip ==
    /\ (pc = "failed" /\ Len(buffer) = 4) => FALSE
    /\ (pc = "token_read") =>
          IF HighByte(RawOfBuffer) = 112
          THEN ret.out.value = UserString(Low24(RawOfBuffer))
          ELSE /\ ret.out.value.tag = "Table"
               /\ ToU32[ret.out.value.table] = HighByte(RawOfBuffer)
               /\ ret.out.value.index = Low24(RawOfBuffer)
    /\ (pc = "token_encoded") => ret.out = RawOfBuffer

\* C15 for the raw values whose high byte is 0x70 or the tag of a kind.
C15_AssignedRoundTrip ==
    (Len(buffer) = 4
        /\ (HighByte(RawOfBuffer) = 112 \/ from_u32(HighByte(RawOfBuffer)) # None)) =>
        /\ pc # "failed"
        /\ (pc = "token_read") =>
              IF HighByte(RawOfBuffer) = 112
              THEN ret.out.value = UserString(Low24(RawOfBuffer))
              ELSE ret.out.value =
                     Table(from_u32(HighByte(RawOfBuffer)).value, Low24(RawOfBuffer))
        /\ (pc = "token_encoded") => ret.out = RawOfBuffer

(***************************************************************************)
(* cil.rs: the opcode table of the opcodes! macro, one entry per OPDEF     *)
(* line in the order of the file, with the enum name, the operand kind and *)
(* the two bytes $op1 and $op2.                                            *)
(***************************************************************************)
OPDEF ==
  <<
    [name |-> "Nop", operand |-> "InlineNone", op1 |-> 255, op2 |-> 0],
    [name |-> "Break", operand |-> "InlineNone", op1 |-> 255, op2 |-> 1],
    [name |-> "Ldarg0", operand |-> "InlineNone", op1 |-> 255, op2 |-> 2],
    [name |-> "Ldarg1", operand |-> "InlineNone", op1 |-> 255, op2 |-> 3],
    [name |-> "Ldarg2", operand |-> "InlineNone", op1 |-> 255, op2 |-> 4],
    [name |-> "Ldarg3", operand |-> "InlineNone", op1 |-> 255, op2 |-> 5],
    [name |-> "Ldloc0", operand |-> "InlineNone", op1 |-> 255, op2 |-> 6],
    [name |-> "Ldloc1", operand |-> "InlineNone", op1 |-> 255, op2 |-> 7],
    [name |-> "Ldloc2", operand |-> "InlineNone", op1 |-> 255, op2 |-> 8],
    [name |-> "Ldloc3", operand |-> "InlineNone", op1 |-> 255, op2 |-> 9],
    [name |-> "Stloc0", operand |-> "InlineNone", op1 |-> 255, op2 |-> 10],
    [name |-> "Stloc1", operand |-> "InlineNone", op1 |-> 255, op2 |-> 11],
    [name |-> "Stloc2", operand |-> "InlineNone", op1 |-> 255, op2 |-> 12],
    [name |-> "Stloc3", operand |-> "InlineNone", op1 |-> 255, op2 |-> 13],
    [name |-> "LdargS", operand |-> "ShortInlineVar", op1 |-> 255, op2 |-> 14],
    [name |-> "LdargaS", operand |-> "ShortInlineVar", op1 |-> 255, op2 |-> 15],
    [name |-> "StargS", operand |-> "ShortInlineVar", op1 |-> 255, op2 |-> 16],
    [name |-> "LdlocS", operand |-> "ShortInlineVar", op1 |-> 255, op2 |-> 17],
    [name |-> "LdlocaS", operand |-> "ShortInlineVar", op1 |-> 255, op2 |-> 18],
    [name |-> "StlocS", operand |-> "ShortInlineVar", op1 |-> 255, op2 |-> 19],
    [name |-> "Ldnull", operand |-> "InlineNone", op1 |-> 255, op2 |-> 20],
    [name |-> "LdcI4M1", operand |-> "InlineNone", op1 |-> 255, op2 |-> 21],
    [name |-> "LdcI40", operand |-> "InlineNone", op1 |-> 255, op2 |-> 22],
    [name |-> "LdcI41", operand |-> "InlineNone", op1 |-> 255, op2 |-> 23],
    [name |-> "LdcI42", operand |-> "InlineNone", op1 |-> 255, op2 |-> 24],
    [name |-> "LdcI43", operand |-> "InlineNone", op1 |-> 255, op2 |-> 25],
    [name |-> "LdcI44", operand |-> "InlineNone", op1 |-> 255, op2 |-> 26],
    [name |-> "LdcI45", operand |-> "InlineNone", op1 |-> 255, op2 |-> 27],
    [name |-> "LdcI46", operand |-> "InlineNone", op1 |-> 255, op2 |-> 28],
    [name |-> "LdcI47", operand |-> "InlineNone", op1 |-> 255, op2 |-> 29],
    [name |-> "LdcI48", operand |-> "InlineNone", op1 |-> 255, op2 |-> 30],
    [name |-> "LdcI4S", operand |-> "ShortInlineI", op1 |-> 255, op2 |-> 31],
    [name |-> "LdcI4", operand |-> "InlineI", op1 |-> 255, op2 |-> 32],
    [name |-> "LdcI8", operand |-> "InlineI8", op1 |-> 255, op2 |-> 33],
    [name |-> "LdcR4", operand |-> "ShortInlineR", op1 |-> 255, op2 |-> 34],
    [name |-> "LdcR8", operand |-> "InlineR", op1 |-> 255, op2 |-> 35],
    [name |-> "Unused49", operand |-> "InlineNone", op1 |-> 255, op2 |-> 36],
    [name |-> "Dup", operand |-> "InlineNone", op1 |-> 255, op2 |-> 37],
    [name |-> "Pop", operand |-> "InlineNone", op1 |-> 255, op2 |-> 38],
    [name |-> "Jmp", operand |-> "InlineMethod", op1 |-> 255, op2 |-> 39],
    [name |-> "Call", operand |-> "InlineMethod", op1 |-> 255, op2 |-> 40],
    [name |-> "Calli", operand |-> "InlineSig", op1 |-> 255, op2 |-> 41],
    [name |-> "Ret", operand |-> "InlineNone", op1 |-> 255, op2 |-> 42],
    [name |-> "BrS", operand |-> "ShortInlineBrTarget", op1 |-> 255, op2 |-> 43],
    [name |-> "BrfalseS", operand |-> "ShortInlineBrTarget", op1 |-> 255, op2 |-> 44],
    [name |-> "BrtrueS", operand |-> "ShortInlineBrTarget", op1 |-> 255, op2 |-> 45],
    [name |-> "BeqS", operand |-> "ShortInlineBrTarget", op1 |-> 255, op2 |-> 46],
    [name |-> "BgeS", operand |-> "ShortInlineBrTarget", op1 |-> 255, op2 |-> 47],
    [name |-> "BgtS", operand |-> "ShortInlineBrTarget", op1 |-> 255, op2 |-> 48],
    [name |-> "BleS", operand |-> "ShortInlineBrTarget", op1 |-> 255, op2 |-> 49],
    [name |-> "BltS", operand |-> "ShortInlineBrTarget", op1 |-> 255, op2 |-> 50],
    [name |-> "BneUnS", operand |-> "ShortInlineBrTarget", op1 |-> 255, op2 |-> 51],
    [name |-> "BgeUnS", operand |-> "ShortInlineBrTarget", op1 |-> 255, op2 |-> 52],
    [name |-> "BgtUnS", operand |-> "ShortInlineBrTarget", op1 |-> 255, op2 |-> 53],
    [name |-> "BleUnS", operand |-> "ShortInlineBrTarget", op1 |-> 255, op2 |-> 54],
    [name |-> "BltUnS", operand |-> "ShortInlineBrTarget", op1 |-> 255, op2 |-> 55],
    [name |-> "Br", operand |-> "InlineBrTarget", op1 |-> 255, op2 |-> 56],
    [name |-> "Brfalse", operand |-> "InlineBrTarget", op1 |-> 255, op2 |-> 57],
    [name |-> "Brtrue", operand |-> "InlineBrTarget", op1 |-> 255, op2 |-> 58],
    [name |-> "Beq", operand |-> "InlineBrTarget", op1 |-> 255, op2 |-> 59],
    [name |-> "Bge", operand |-> "InlineBrTarget", op1 |-> 255, op2 |-> 60],
    [name |-> "Bgt", operand |-> "InlineBrTarget", op1 |-> 255, op2 |-> 61],
    [name |-> "Ble", operand |-> "InlineBrTarget", op1 |-> 255, op2 |-> 62],
    [name |-> "Blt", operand |-> "InlineBrTarget", op1 |-> 255, op2 |-> 63],
    [name |-> "BneUn", operand |-> "InlineBrTarget", op1 |-> 255, op2 |-> 64],
    [name |-> "BgeUn", operand |-> "InlineBrTarget", op1 |-> 255, op2 |-> 65],
    [name |-> "BgtUn", operand |-> "InlineBrTarget", op1 |-> 255, op2 |-> 66],
    [name |-> "BleUn", operand |-> "InlineBrTarget", op1 |-> 255, op2 |-> 67],
    [name |-> "BltUn", operand |-> "InlineBrTarget", op1 |-> 255, op2 |-> 68],
    [name |-> "Switch", operand |-> "InlineSwitch", op1 |-> 255, op2 |-> 69],
    [name |-> "LdindI1", operand |-> "InlineNone", op1 |-> 255, op2 |-> 70],
    [name |-> "LdindU1", operand |-> "InlineNone", op1 |-> 255, op2 |-> 71],
    [name |-> "LdindI2", operand |-> "InlineNone", op1 |-> 255, op2 |-> 72],
    [name |-> "LdindU2", operand |-> "InlineNone", op1 |-> 255, op2 |-> 73],
    [name |-> "LdindI4", operand |-> "InlineNone", op1 |-> 255, op2 |-> 74],
    [name |-> "LdindU4", operand |-> "InlineNone", op1 |-> 255, op2 |-> 75],
    [name |-> "LdindI8", operand |-> "InlineNone", op1 |-> 255, op2 |-> 76],
    [name |-> "LdindI", operand |-> "InlineNone", op1 |-> 255, op2 |-> 77],
    [name |-> "LdindR4", operand |-> "InlineNone", op1 |-> 255, op2 |-> 78],
    [name |-> "LdindR8", operand |-> "InlineNone", op1 |-> 255, op2 |-> 79],
    [name |-> "LdindRef", operand |-> "InlineNone", op1 |-> 255, op2 |-> 80],
    [name |-> "StindRef", operand |-> "InlineNone", op1 |-> 255, op2 |-> 81],
    [name |-> "StindI1", operand |-> "InlineNone", op1 |-> 255, op2 |-> 82],
    [name |-> "StindI2", operand |-> "InlineNone", op1 |-> 255, op2 |-> 83],
    [name |-> "StindI4", operand |-> "InlineNone", op1 |-> 255, op2 |-> 84],
    [name |-> "StindI8", operand |-> "InlineNone", op1 |-> 255, op2 |-> 85],
    [name |-> "StindR4", operand |-> "InlineNone", op1 |-> 255, op2 |-> 86],
    [name |-> "StindR8", operand |-> "InlineNone", op1 |-> 255, op2 |-> 87],
    [name |-> "Add", operand |-> "InlineNone", op1 |-> 255, op2 |-> 88],
    [name |-> "Sub", operand |-> "InlineNone", op1 |-> 255, op2 |-> 89],
    [name |-> "Mul", operand |-> "InlineNone", op1 |-> 255, op2 |-> 90],
    [name |-> "Div", operand |-> "InlineNone", op1 |-> 255, op2 |-> 91],
    [name |-> "DivUn", operand |-> "InlineNone", op1 |-> 255, op2 |-> 92],
    [name |-> "Rem", operand |-> "InlineNone", op1 |-> 255, op2 |-> 93],
    [name |-> "RemUn", operand |-> "InlineNone", op1 |-> 255, op2 |-> 94],
    [name |-> "And", operand |-> "InlineNone", op1 |-> 255, op2 |-> 95],
    [name |-> "Or", operand |-> "InlineNone", op1 |-> 255, op2 |-> 96],
    [name |-> "Xor", operand |-> "InlineNone", op1 |-> 255, op2 |-> 97],
    [name |-> "Shl", operand |-> "InlineNone", op1 |-> 255, op2 |-> 98],
    [name |-> "Shr", operand |-> "InlineNone", op1 |-> 255, op2 |-> 99],
    [name |-> "ShrUn", operand |-> "InlineNone", op1 |-> 255, op2 |-> 100],
    [name |-> "Neg", operand |-> "InlineNone", op1 |-> 255, op2 |-> 101],
    [name |-> "Not", operand |-> "InlineNone", op1 |-> 255, op2 |-> 102],
    [name |-> "ConvI1", operand |-> "InlineNone", op1 |-> 255, op2 |-> 103],
    [name |-> "ConvI2", operand |-> "InlineNone", op1 |-> 255, op2 |-> 104],
    [name |-> "ConvI4", operand |-> "InlineNone", op1 |-> 255, op2 |-> 105],
    [name |-> "ConvI8", operand |-> "InlineNone", op1 |-> 255, op2 |-> 106],
    [name |-> "ConvR4", operand |-> "InlineNone", op1 |-> 255, op2 |-> 107],
    [name |-> "ConvR8", operand |-> "InlineNone", op1 |-> 255, op2 |-> 108],
    [name |-> "ConvU4", operand |-> "InlineNone", op1 |-> 255, op2 |-> 109],
    [name |-> "ConvU8", operand |-> "InlineNone", op1 |-> 255, op2 |-> 110],
    [name |-> "Callvirt", operand |-> "InlineMethod", op1 |-> 255, op2 |-> 111],
    [name |-> "Cpobj", operand |-> "InlineType", op1 |-> 255, op2 |-> 112],
    [name |-> "Ldobj", operand |-> "InlineType", op1 |-> 255, op2 |-> 113],
    [name |-> "Ldstr", operand |-> "InlineString", op1 |-> 255, op2 |-> 114],
    [name |-> "Newobj", operand |-> "InlineMethod", op1 |-> 255, op2 |-> 115],
    [name |-> "Castclass", operand |-> "InlineType", op1 |-> 255, op2 |-> 116],
    [name |-> "Isinst", operand |-> "InlineType", op1 |-> 255, op2 |-> 117],
    [name |-> "ConvRUn", operand |-> "InlineNone", op1 |-> 255, op2 |-> 118],
    [name |-> "Unused58", operand |-> "InlineNone", op1 |-> 255, op2 |-> 119],
    [name |-> "Unused1", operand |-> "InlineNone", op1 |-> 255, op2 |-> 120],
    [name |-> "Unbox", operand |-> "InlineType", op1 |-> 255, op2 |-> 121],
    [name |-> "Throw", operand |-> "InlineNone", op1 |-> 255, op2 |-> 122],
    [name |-> "Ldfld", operand |-> "InlineField", op1 |-> 255, op2 |-> 123],
    [name |-> "Ldflda", operand |-> "InlineField", op1 |-> 255, op2 |-> 124],
    [name |-> "Stfld", operand |-> "InlineField", op1 |-> 255, op2 |-> 125],
    [name |-> "Ldsfld", operand |-> "InlineField", op1 |-> 255, op2 |-> 126],
    [name |-> "Ldsflda", operand |-> "InlineField", op1 |-> 255, op2 |-> 127],
    [name |-> "Stsfld", operand |-> "InlineField", op1 |-> 255, op2 |-> 128],
    [name |-> "Stobj", operand |-> "InlineType", op1 |-> 255, op2 |-> 129],
    [name |-> "ConvOvfI1Un", operand |-> "InlineNone", op1 |-> 255, op2 |-> 130],
    [name |-> "ConvOvfI2Un", operand |-> "InlineNone", op1 |-> 255, op2 |-> 131],
    [name |-> "ConvOvfI4Un", operand |-> "InlineNone", op1 |-> 255, op2 |-> 132],
    [name |-> "ConvOvfI8Un", operand |-> "InlineNone", op1 |-> 255, op2 |-> 133],
    [name |-> "ConvOvfU1Un", operand |-> "InlineNone", op1 |-> 255, op2 |-> 134],
    [name |-> "ConvOvfU2Un", operand |-> "InlineNone", op1 |-> 255, op2 |-> 135],
    [name |-> "ConvOvfU4Un", operand |-> "InlineNone", op1 |-> 255, op2 |-> 136],
    [name |-> "ConvOvfU8Un", operand |-> "InlineNone", op1 |-> 255, op2 |-> 137],
    [name |-> "ConvOvfIUn", operand |-> "InlineNone", op1 |-> 255, op2 |-> 138],
    [name |-> "ConvOvfUUn", operand |-> "InlineNone", op1 |-> 255, op2 |-> 139],
    [name |-> "Box", operand |-> "InlineType", op1 |-> 255, op2 |-> 140],
    [name |-> "Newarr", operand |-> "InlineType", op1 |-> 255, op2 |-> 141],
    [name |-> "Ldlen", operand |-> "InlineNone", op1 |-> 255, op2 |-> 142],
    [name |-> "Ldelema", operand |-> "InlineType", op1 |-> 255, op2 |-> 143],
    [name |-> "LdelemI1", operand |-> "InlineNone", op1 |-> 255, op2 |-> 144],
    [name |-> "LdelemU1", operand |-> "InlineNone", op1 |-> 255, op2 |-> 145],
    [name |-> "LdelemI2", operand |-> "InlineNone", op1 |-> 255, op2 |-> 146],
    [name |-> "LdelemU2", operand |-> "InlineNone", op1 |-> 255, op2 |-> 147],
    [name |-> "LdelemI4", operand |-> "InlineNone", op1 |-> 255, op2 |-> 148],
    [name |-> "LdelemU4", operand |-> "InlineNone", op1 |-> 255, op2 |-> 149],
    [name |-> "LdelemI8", operand |-> "InlineNone", op1 |-> 255, op2 |-> 150],
    [name |-> "LdelemI", operand |-> "InlineNone", op1 |-> 255, op2 |-> 151],
    [name |-> "LdelemR4", operand |-> "InlineNone", op1 |-> 255, op2 |-> 152],
    [name |-> "LdelemR8", operand |-> "InlineNone", op1 |-> 255, op2 |-> 153],
    [name |-> "LdelemRef", operand |-> "InlineNone", op1 |-> 255, op2 |-> 154],
    [name |-> "StelemI", operand |-> "InlineNone", op1 |-> 255, op2 |-> 155],
    [name |-> "StelemI1", operand |-> "InlineNone", op1 |-> 255, op2 |-> 156],
    [name |-> "StelemI2", operand |-> "InlineNone", op1 |-> 255, op2 |-> 157],
    [name |-> "StelemI4", operand |-> "InlineNone", op1 |-> 255, op2 |-> 158],
    [name |-> "StelemI8", operand |-> "InlineNone", op1 |-> 255, op2 |-> 159],
    [name |-> "StelemR4", operand |-> "InlineNone", op1 |-> 255, op2 |-> 160],
    [name |-> "StelemR8", operand |-> "InlineNone", op1 |-> 255, op2 |-> 161],
    [name |-> "StelemRef", operand |-> "InlineNone", op1 |-> 255, op2 |-> 162],
    [name |-> "Unused2", operand |-> "InlineNone", op1 |-> 255, op2 |-> 163],
    [name |-> "ConvOvfI1", operand |-> "InlineNone", op1 |-> 255, op2 |-> 179],
    [name |-> "ConvOvfU1", operand |-> "InlineNone", op1 |-> 255, op2 |-> 180],
    [name |-> "ConvOvfI2", operand |-> "InlineNone", op1 |-> 255, op2 |-> 181],
    [name |-> "ConvOvfU2", operand |-> "InlineNone", op1 |-> 255, op2 |-> 182],
    [name |-> "ConvOvfI4", operand |-> "InlineNone", op1 |-> 255, op2 |-> 183],
    [name |-> "ConvOvfU4", operand |-> "InlineNone", op1 |-> 255, op2 |-> 184],
    [name |-> "ConvOvfI8", operand |-> "InlineNone", op1 |-> 255, op2 |-> 185],
    [name |-> "ConvOvfU8", operand |-> "InlineNone", op1 |-> 255, op2 |-> 186],
    [name |-> "Unused50", operand |-> "InlineNone", op1 |-> 255, op2 |-> 187],
    [name |-> "Unused18", operand |-> "InlineNone", op1 |-> 255, op2 |-> 188],
    [name |-> "Unused19", operand |-> "InlineNone", op1 |-> 255, op2 |-> 189],
    [name |-> "Unused20", operand |-> "InlineNone", op1 |-> 255, op2 |-> 190],
    [name |-> "Unused21", operand |-> "InlineNone", op1 |-> 255, op2 |-> 191],
    [name |-> "Unused22", operand |-> "InlineNone", op1 |-> 255, op2 |-> 192],
    [name |-> "Unused23", operand |-> "InlineNone", op1 |-> 255, op2 |-> 193],
    [name |-> "Refanyval", operand |-> "InlineType", op1 |-> 255, op2 |-> 194],
    [name |-> "Ckfinite", operand |-> "InlineNone", op1 |-> 255, op2 |-> 195],
    [name |-> "Unused24", operand |-> "InlineNone", op1 |-> 255, op2 |-> 196],
    [name |-> "Unused25", operand |-> "InlineNone", op1 |-> 255, op2 |-> 197],
    [name |-> "Mkrefany", operand |-> "InlineType", op1 |-> 255, op2 |-> 198],
    [name |-> "Ldtoken", operand |-> "InlineTok", op1 |-> 255, op2 |-> 208],
    [name |-> "ConvU2", operand |-> "InlineNone", op1 |-> 255, op2 |-> 209],
    [name |-> "ConvU1", operand |-> "InlineNone", op1 |-> 255, op2 |-> 210],
    [name |-> "ConvI", operand |-> "InlineNone", op1 |-> 255, op2 |-> 211],
    [name |-> "ConvOvfI", operand |-> "InlineNone", op1 |-> 255, op2 |-> 212],
    [name |-> "ConvOvfU", operand |-> "InlineNone", op1 |-> 255, op2 |-> 213],
    [name |-> "AddOvf", operand |-> "InlineNone", op1 |-> 255, op2 |-> 214],
    [name |-> "AddOvfUn", operand |-> "InlineNone", op1 |-> 255, op2 |-> 215],
    [name |-> "MulOvf", operand |-> "InlineNone", op1 |-> 255, op2 |-> 216],
    [name |-> "MulOvfUn", operand |-> "InlineNone", op1 |-> 255, op2 |-> 217],
    [name |-> "SubOvf", operand |-> "InlineNone", op1 |-> 255, op2 |-> 218],
    [name |-> "SubOvfUn", operand |-> "InlineNone", op1 |-> 255, op2 |-> 219],
    [name |-> "Endfinally", operand |-> "InlineNone", op1 |-> 255, op2 |-> 220],
    [name |-> "Leave", operand |-> "InlineBrTarget", op1 |-> 255, op2 |-> 221],
    [name |-> "LeaveS", operand |-> "ShortInlineBrTarget", op1 |-> 255, op2 |-> 222],
    [name |-> "StindI", operand |-> "InlineNone", op1 |-> 255, op2 |-> 223],
    [name |-> "ConvU", operand |-> "InlineNone", op1 |-> 255, op2 |-> 224],
    [name |-> "Prefix7", operand |-> "InlineNone", op1 |-> 255, op2 |-> 248],
    [name |-> "Prefix6", operand |-> "InlineNone", op1 |-> 255, op2 |-> 249],
    [name |-> "Prefix5", operand |-> "InlineNone", op1 |-> 255, op2 |-> 250],
    [name |-> "Prefix4", operand |-> "InlineNone", op1 |-> 255, op2 |-> 251],
    [name |-> "Prefix3", operand |-> "InlineNone", op1 |-> 255, op2 |-> 252],
    [name |-> "Prefix2", operand |-> "InlineNone", op1 |-> 255, op2 |-> 253],
    [name |-> "Prefix1", operand |-> "InlineNone", op1 |-> 255, op2 |-> 254],
    [name |-> "Prefixref", operand |-> "InlineNone", op1 |-> 255, op2 |-> 255],
    [name |-> "Arglist", operand |-> "InlineNone", op1 |-> 254, op2 |-> 0],
    [name |-> "Ceq", operand |-> "InlineNone", op1 |-> 254, op2 |-> 1],
    [name |-> "Cgt", operand |-> "InlineNone", op1 |-> 254, op2 |-> 2],
    [name |-> "CgtUn", operand |-> "InlineNone", op1 |-> 254, op2 |-> 3],
    [name |-> "Clt", operand |-> "InlineNone", op1 |-> 254, op2 |-> 4],
    [name |-> "CltUn", operand |-> "InlineNone", op1 |-> 254, op2 |-> 5],
    [name |-> "Ldftn", operand |-> "InlineMethod", op1 |-> 254, op2 |-> 6],
    [name |-> "Ldvirtftn", operand |-> "InlineMethod", op1 |-> 254, op2 |-> 7],
    [name |-> "Ldarg", operand |-> "InlineVar", op1 |-> 254, op2 |-> 9],
    [name |-> "Ldarga", operand |-> "InlineVar", op1 |-> 254, op2 |-> 10],
    [name |-> "Starg", operand |-> "InlineVar", op1 |-> 254, op2 |-> 11],
    [name |-> "Ldloc", operand |-> "InlineVar", op1 |-> 254, op2 |-> 12],
    [name |-> "Ldloca", operand |-> "InlineVar", op1 |-> 254, op2 |-> 13],
    [name |-> "Stloc", operand |-> "InlineVar", op1 |-> 254, op2 |-> 14],
    [name |-> "Localloc", operand |-> "InlineNone", op1 |-> 254, op2 |-> 15],
    [name |-> "Endfilter", operand |-> "InlineNone", op1 |-> 254, op2 |-> 17],
    [name |-> "Unaligned", operand |-> "ShortInlineI", op1 |-> 254, op2 |-> 18],
    [name |-> "Volatile", operand |-> "InlineNone", op1 |-> 254, op2 |-> 19],
    [name |-> "Tailcall", operand |-> "InlineNone", op1 |-> 254, op2 |-> 20],
    [name |-> "Initobj", operand |-> "InlineType", op1 |-> 254, op2 |-> 21],
    [name |-> "Cpblk", operand |-> "InlineNone", op1 |-> 254, op2 |-> 23],
    [name |-> "Initblk", operand |-> "InlineNone", op1 |-> 254, op2 |-> 24],
    [name |-> "Sizeof", operand |-> "InlineType", op1 |-> 254, op2 |-> 28],
    [name |-> "Refanytype", operand |-> "InlineNone", op1 |-> 254, op2 |-> 29]
  >>

\* The first entry of the table whose pattern [$op2, $op1, ..] the slice
\* matches, as the arms of a match are tried in order.
FirstMatch(matches) == CHOOSE i \in matches : \A j \in matches : i <= j

CodeFromAnyPrefix(slice) ==
    LET matches == {i \in DOMAIN OPDEF : OPDEF[i].op2 = slice[1]}
    IN  IF Len(slice) >= 2 /\ matches # {}
        THEN Ok(OPDEF[FirstMatch(matches)].name)
        ELSE Panic("Invalid opcode")

CodeFrom(slice) ==
    LET matches == {i \in DOMAIN OPDEF :
                      OPDEF[i].op2 = slice[1] /\ OPDEF[i].op1 = slice[2]}
    IN  IF Len(slice) >= 2 /\ matches # {}
        THEN Ok(OPDEF[FirstMatch(matches)].name)
        ELSE Panic("Invalid opcode")

\* Code::metadata: the table entry of a code.
CodeMetadata(code) == OPDEF[CHOOSE i \in DOMAIN OPDEF : OPDEF[i].name = code]

\* read_switch_table: a u32 count, then count i32 targets.  No buffer of
\* the model holds 65536 targets, so a count that large ends in
\* UnexpectedEof.
read_switch_table(buf, pos) ==
    IF ~CanRead(buf, pos, 4)
    THEN [out |-> Err("UnexpectedEof"), position |-> pos]
    ELSE LET n == u32_from_le_bytes(buf, pos)
         IN  IF n[1] # 0 \/ ~CanRead(buf, pos + 4, 4 * n[2])
             THEN [out |-> Err("UnexpectedEof"), position |-> pos + 4]
             ELSE [out |-> Ok([k \in 1..n[2] |->
                                 Slice(buf, pos + 4 * k, 4)]),
                   position |-> pos + 4 + 4 * n[2]]

\* The widths with InlineVar read as four bytes.
OperandWidthVarWide ==
    [InlineBrTarget |-> 4, InlineI |-> 4, InlineI8 |-> 8, InlineNone |-> 0,
     InlineR |-> 8, InlineVar |-> 4, ShortInlineBrTarget |-> 1,
     ShortInlineI |-> 1, ShortInlineR |-> 4, ShortInlineVar |-> 1]

\* The bytes read by the @parse arm of an operand kind of fixed width.
OperandWidth ==
    [InlineBrTarget |-> 4, InlineI |-> 4, InlineI8 |-> 8, InlineNone |-> 0,
     InlineR |-> 8, InlineVar |-> 2, ShortInlineBrTarget |-> 1,
     ShortInlineI |-> 1, ShortInlineR |-> 4, ShortInlineVar |-> 1]

TokenOperands ==
    {"InlineField", "InlineMethod", "InlineSig", "InlineString", "InlineTok",
     "InlineType"}

\* OpCode::parse: the operand of the code is read by its kind.  A number is
\* kept as its little-endian bytes.
OpCodeParse(code, buf, pos) ==
    LET operand == CodeMetadata(code).operand
        OpCode(r) == [out |-> IF r.out.tag = "Ok"
                              THEN Ok([code |-> code, operand |-> r.out.value])
                              ELSE r.out,
                      position |-> r.position]
    IN  IF operand \in TokenOperands
        THEN {OpCode(r) : r \in MetadataTokenRead(buf, pos)}
        ELSE IF operand = "InlineSwitch"
        THEN {OpCode(read_switch_table(buf, pos))}
        ELSE IF ~CanRead(buf, pos, OperandWidth[operand])
        THEN {[out |-> Err("UnexpectedEof"), position |-> pos]}
        ELSE {OpCode([out |-> Ok(Slice(buf, pos, OperandWidth[operand])),
                      position |-> pos + OperandWidth[operand]])}

Instruction(opcode, offset) == [opcode |-> opcode, offset |-> offset]

\* The opcode read of the instruction decoding loop: one byte op1; for
\* op1 = 0xFE a second byte op2 and the two-byte opcode, else the one-byte
\* opcode.
ReadCode(buf, pos) ==
    IF ~CanRead(buf, pos, 1)
    THEN [out |-> Err("UnexpectedEof"), position |-> pos]
    ELSE IF buf[pos + 1] = 254
    THEN IF ~CanRead(buf, pos + 1, 1)
         THEN [out |-> Err("UnexpectedEof"), position |-> pos + 1]
         ELSE [out |-> CodeFrom(<<buf[pos + 2], 254>>), position |-> pos + 2]
    ELSE [out |-> CodeFrom(<<buf[pos + 1], 255>>), position |-> pos + 1]

(***************************************************************************)
(* SpecCil: the instruction decoding loop over the code of a method body.  *)
(* The buffer starts at the first byte of the code, so the start position  *)
(* s is 0.                                                                 *)
(***************************************************************************)
MaxInstr == 2

\* Encodings of instructions: whole, cut short, and unassigned.
CilChunks ==
    {<<0>>, <<42>>, <<31, 5>>, <<32, 1, 0, 0, 0>>,
     <<33, 1, 0, 0, 0, 0, 0, 0, 0>>, <<34, 0, 0, 128, 63>>,
     <<40, 1, 0, 0, 10>>, <<114, 1, 0, 0, 112>>,
     <<69, 0, 0, 0, 0>>, <<69, 1, 0, 0, 0, 2, 0, 0, 0>>,
     <<254, 1>>, <<254, 0>>, <<254, 12, 1, 0>>, <<254, 8>>, <<254>>,
     <<164>>, <<32, 1>>,
     <<14, 1>>, <<43, 2>>, <<56, 1, 0, 0, 0>>,
     <<35, 0, 0, 0, 0, 0, 0, 240, 63>>, <<123, 1, 0, 0, 4>>,
     <<41, 1, 0, 0, 17>>, <<208, 1, 0, 0, 2>>, <<141, 1, 0, 0, 1>>}

RECURSIVE CilBuffersOf(_)
CilBuffersOf(n) ==
    IF n = 0 THEN {<<>>}
    ELSE LET shorter == CilBuffersOf(n - 1)
         IN  shorter \cup {q \o chunk : <<q, chunk>> \in shorter \X CilChunks}

InitCil ==
    /\ pc = "decoding"
    /\ buffer \in CilBuffersOf(MaxInstr)
    /\ position = 0
    /\ overflow_checks = FALSE
    /\ ret = None
    /\ header = <<>>
    /\ metadata = EmptyMap
    /\ \E code_size \in 0..(Len(buffer) + 1) :
         image = [body |-> <<>>, max_stack |-> 8, code_size |-> U32(code_size)]
    /\ CtxIdle /\ HeapIdle /\ TablesIdle

\* One turn of the loop: offset, opcode, operand, and the instruction is
\* pushed; a failure ends the decoding.
ReadInstruction ==
    /\ pc = "decoding"
    /\ U32Lt(U32(position), image.code_size)
    /\ LET offset == position
           code == ReadCode(buffer, position)
       IN  IF code.out.tag # "Ok"
           THEN /\ pc' = "failed"
                /\ position' = code.position
                /\ ret' = [op |-> "read_method_body", out |-> code.out]
                /\ image' = image
           ELSE \E r \in OpCodeParse(code.out.value, buffer, code.position) :
                  /\ position' = r.position
                  /\ IF r.out.tag = "Ok"
                     THEN /\ pc' = "decoding"
                          /\ ret' = ret
                          /\ image' = [image EXCEPT !.body =
                                 Append(@, Instruction(r.out.value, offset))]
                     ELSE /\ pc' = "failed"
                          /\ ret' = [op |-> "read_method_body", out |-> r.out]
                          /\ image' = image
    /\ UNCHANGED <<buffer, overflow_checks, header, metadata, heapVars,
                   ctxVars, tables>>

MethodBodyDone ==
    /\ pc = "decoding"
    /\ ~U32Lt(U32(position), image.code_size)
    /\ pc' = "body_decoded"
    /\ ret' = [op |-> "read_method_body", out |-> Ok(image)]
    /\ UNCHANGED <<cursorVars, heapVars, loadVars, ctxVars, tables>>

NextCil == ReadInstruction \/ MethodBodyDone

SpecCil == InitCil /\ [][NextCil]_vars

\* The opcode length of an instruction: 2 for the codes of the 0xFE table.
OpcodeLength(i) == IF CodeMetadata(i.opcode.code).op1 = 254 THEN 2 ELSE 1

\* The wire width of the operand of an instruction.
WireWidth(i) ==
    LET operand == CodeMetadata(i.opcode.code).operand
    IN  IF operand \in TokenOperands THEN 4
        ELSE IF operand = "InlineSwitch" THEN 4 + 4 * Len(i.opcode.operand)
        ELSE OperandWidth[operand]

InstructionSize(i) == OpcodeLength(i) + WireWidth(i)

\* C12: in a decoded body the first offset is 0, the offsets increase
\* strictly, each instruction ends where the next begins, and the last one
\* ends at code_size.
C12_OffsetsContiguous ==
    pc = "body_decoded" =>
        LET body == image.body
            n == Len(body)
        IN  n > 0 =>
              /\ body[1].offset = 0
              /\ \A k \in 1..(n - 1) :
                    /\ body[k].offset < body[k + 1].offset
                    /\ body[k].offset + InstructionSize(body[k]) = body[k + 1].offset
              /\ U32(body[n].offset + InstructionSize(body[n])) = image.code_size

\* C12 without its last equation: the last instruction ends at or after
\* code_size, at the position where the loop stopped.
C12_OffsetsChain ==
    LET body == image.body
        n == Len(body)
    IN  (pc \in {"decoding", "body_decoded"} /\ n > 0) =>
          /\ body[1].offset = 0
          /\ \A k \in 1..(n - 1) :
                /\ body[k].offset < body[k + 1].offset
                /\ body[k].offset + InstructionSize(body[k]) = body[k + 1].offset
          /\ body[n].offset + InstructionSize(body[n]) = position
          /\ pc = "body_decoded" => U32Ge(U32(position), image.code_size)

C16_ValueBeforeTerminator ==
    (pc = "string_returned" /\ ret.out.tag = "Ok") =>
        LET value == ret.out.value
        IN  /\ \A i \in 1..Len(value) : value[i] # 0
            /\ \E e \in 1..Len(buffer) :
                  /\ buffer[e] = 0
                  /\ e > Len(value)
                  /\ value = SubSeq(buffer, e - Len(value), e - 1)

\* C16, as the code has it: a returned string is the bytes up to and
\* including the 0x00 it was read up to, or up to the end of the file, and
\* holds no other 0x00.
C16_ValueWithTerminator ==
    (pc = "string_returned" /\ ret.out.tag = "Ok") =>
        LET value == ret.out.value
        IN  /\ Len(value) >= 1
            /\ value[Len(value)] = 0 \/ ret.arg = Len(buffer)
            /\ \A i \in 1..(Len(value) - 1) : value[i] # 0
            /\ value = SubSeq(buffer, ret.arg - Len(value) + 1, ret.arg)

\* C17: a lookup through the facade with an offset that is the key of no
\* entry returns MissingHeapEntry to the caller.
C17_MissingHeapEntry ==
    (pc = "string_returned" /\ ret.arg \notin DOMAIN strings) =>
        ret.out = Err("MissingHeapEntry")

\* C17, as the code has it: the facade returns exactly for the keys of the
\* map, and the bare StringStream::get gives None for the others.
C17_StreamGetMisses ==
    /\ (pc = "string_returned") =>
          (ret.out.tag = "Ok" <=> ret.arg \in DOMAIN strings)
    /\ (pc = "string_got" /\ ret.arg \notin DOMAIN strings) => ret.out = None

\* C19: the load of the #Strings stream ends, with a stream or a failure,
\* also where the declared size reaches past the end of the file.
C19_LoadTerminates == <>(pc # "strings_loop")

\* C19 for the streams that lie within the file.
C19_TerminatesWithinFile ==
    (Len(buffer) >= header.size) ~> (pc # "strings_loop")

(***************************************************************************)
(* Simple indexes against the rows of the table they point into.           *)
(***************************************************************************)
\* C18: a decoded simple index into table T is 0 or at most row_count[T].
C18_IndexWithinRows ==
    (pc = "read" /\ ret.out.tag = "Ok") =>
        \/ ret.out.value.index = 0
        \/ ret.out.value.index <= DeclaredRows(ret.arg)

\* C18, as the code has it: the index is the little-endian value of the
\* bytes read, whatever the rows of the table.
C18_IndexIsWireValue ==
    (pc = "read" /\ ret.out.tag = "Ok") =>
        ret.out.value.index = from_le_bytes(Slice(buffer, 0, position))

(***************************************************************************)
(* lib.rs tests::it_works: get_assembly_ref(0).unwrap() on a loaded image. *)
(***************************************************************************)
\* C20: on an image whose AssemblyRef table has a row, get_assembly_ref(0)
\* returns Some(row).
C20_AssemblyRefZero ==
    (pc = "got" /\ ret.kind = "AssemblyRef" /\ ret.arg = 0
        /\ Len(tables["AssemblyRef"]) >= 1) =>
        ret.out.tag = "Some"

\* C20, as the code has it: the first AssemblyRef row is returned for the
\* ordinal 1, and the ordinal 0 gives None.
C20_AssemblyRefOne ==
    (pc = "got" /\ ret.kind = "AssemblyRef" /\ Len(tables["AssemblyRef"]) >= 1) =>
        /\ ret.arg = 1 => ret.out = Some(Row("AssemblyRef", 1))
        /\ ret.arg = 0 => ret.out = None

(***************************************************************************)
(* The rows of the tables of a #~ stream.                                  *)
(***************************************************************************)
\* The rows a loaded table holds.
RowsStoredIn(tbls, kind) ==
    IF kind = "Assembly" THEN (IF tbls[kind] = None THEN 0 ELSE 1)
    ELSE IF kind = "Module" THEN 1
    ELSE Len(tbls[kind])

RowsStored(kind) == RowsStoredIn(tables, kind)

RECURSIVE SumSeq(_)
SumSeq(q) == IF q = <<>> THEN 0 ELSE Head(q) + SumSeq(Tail(q))

\* The rows Table::read takes from the file for a table of n declared rows.
RowsTaken(kind, n) ==
    IF kind = "Assembly" THEN (IF n = 0 THEN 0 ELSE 1)
    ELSE IF kind = "Module" THEN 1
    ELSE n

\* C21: every table present in Valid, Assembly and Module included, is
\* decoded to exactly row_count[table] rows, and the rows of the tables
\* follow one another, so all tables together take the sum of the row
\* counts from the file.
C21_ExactRows ==
    pc = "tables_loaded" =>
        /\ \A i \in 1..Len(TableKinds) :
              RowsStored(TableKinds[i]) = header.rows[i]
        /\ position = SumSeq(header.rows)

\* C21, as the code has it: read_rows takes row_count rows, read_single_row
\* at most one, and Module one row whatever the count.
C21_RowsTaken ==
    pc = "tables_loaded" =>
        /\ \A i \in 1..Len(TableKinds) :
              RowsStored(TableKinds[i]) = RowsTaken(TableKinds[i], header.rows[i])
        /\ position = SumSeq([i \in 1..Len(TableKinds) |->
                                RowsTaken(TableKinds[i], header.rows[i])])

\* One table is decoded: the table of the next set bit of Valid, not decoded
\* before, with the row count at the same place of the rows array.
DecodesNextTable ==
    count' # count =>
        LET kind == TableKinds[count + 1]
        IN  /\ count' = count + 1
            /\ kind \notin DOMAIN tables
            /\ DOMAIN tables' = DOMAIN tables \cup {kind}
            /\ \A i \in 1..count : ToU32[TableKinds[i]] < ToU32[kind]
            /\ ToU32[kind] = SortedSeq(header.valid)[count + 1]
            /\ RowsStoredIn(tables', kind) = RowsTaken(kind, header.rows[count + 1])

BitsOfBytes(bytes) ==
    {8 * (i - 1) + j : <<i, j>> \in
        {<<i, j>> \in (1..Len(bytes)) \X (0..7) : (bytes[i] \div 2^j) % 2 = 1}}

\* The header of the stream up to the rows array: reserved u32, major and
\* minor version asserted to be 2 and 0, heap sizes, reserved, Valid, Sorted,
\* then valid.count_ones() row counts.
MetadataStreamHeader(buf, pos) ==
    IF ~CanRead(buf, pos, 6)
    THEN [out |-> Err("UnexpectedEof"), position |-> pos]
    ELSE IF buf[pos + 5] # 2
    THEN [out |-> Panic("Invalid major version"), position |-> pos + 6]
    ELSE IF buf[pos + 6] # 0
    THEN [out |-> Panic("Invalid minor version"), position |-> pos + 6]
    ELSE IF ~CanRead(buf, pos, 24)
    THEN [out |-> Err("UnexpectedEof"), position |-> pos + 6]
    ELSE LET valid == BitsOfBytes(Slice(buf, pos + 8, 8))
             number_of_tables == Cardinality(valid)
         IN  IF ~CanRead(buf, pos + 24, 4 * number_of_tables)
             THEN [out |-> Err("UnexpectedEof"), position |-> pos + 24]
             ELSE [out |-> Ok([valid |-> valid,
                               rows |-> [i \in 1..number_of_tables |->
                                  from_le_bytes(Slice(buf, pos + 20 + 4 * i, 4))]]),
                   position |-> pos + 24 + 4 * number_of_tables]

(***************************************************************************)
(* SpecStream: MetadataStream::from over the bytes of a #~ stream.         *)
(***************************************************************************)
\* The 8 bytes of a Valid mask.
ValidBytes(V) ==
    [i \in 1..8 |-> SumSeq([j \in 1..8 |->
                        IF 8 * (i - 1) + j - 1 \in V THEN 2^(j - 1) ELSE 0])]

RECURSIVE RowCountBytes(_)
RowCountBytes(rows) ==
    IF rows = <<>> THEN <<>>
    ELSE LE32(U32(Head(rows))) \o RowCountBytes(Tail(rows))

\* Module, TypeDef, a bit below 0x2C that numbers no table (3), Assembly,
\* AssemblyRef, the first bit above 0x2C, and the last bit.
StreamBitSamples == {0, 2, 3, 35, 32, 45, 63}

\* Streams with the rows array the mask calls for, one entry more, or one
\* less, and with the rows of the tables or none; a minor or major version
\* that is refused.
StreamFiles ==
    {LE32(U32(0)) \o <<ver[1], ver[2], 0, 1>> \o ValidBytes(V) \o Zeros(8)
        \o RowCountBytes([i \in 1..n |-> r]) \o Zeros(data) :
        <<ver, V, n, r, data>> \in
            {<<2, 0>>, <<1, 0>>, <<2, 1>>}
            \X {V \in SUBSET StreamBitSamples : Cardinality(V) <= 2}
            \X (0..3) \X (0..MaxRows) \X {0, 2 * MaxRows}}
        \cup {<<0, 0, 0, 0, 2>>}

InitStream ==
    /\ pc = "stream_start"
    /\ buffer \in StreamFiles
    /\ position = 0
    /\ header = <<>>
    /\ count = 0
    /\ tables = EmptyMap
    /\ ret = None
    /\ overflow_checks = FALSE
    /\ CtxIdle /\ strings = EmptyMap /\ image = EmptyMap /\ metadata = EmptyMap

ReadStreamHeader ==
    /\ pc = "stream_start"
    /\ LET r == MetadataStreamHeader(buffer, position)
       IN  /\ position' = r.position
           /\ IF r.out.tag = "Ok"
              THEN /\ header' = r.out.value
                   /\ pc' = "tables_start"
                   /\ UNCHANGED ret
              ELSE /\ pc' = "failed"
                   /\ ret' = [op |-> "MetadataStream::from", out |-> r.out]
                   /\ UNCHANGED header
    /\ UNCHANGED <<buffer, overflow_checks, heapVars, image, metadata, ctxVars,
                   tables>>

NextStream == ReadStreamHeader \/ FromBitmask \/ TableReadStep \/ TablesDone

SpecStream == InitStream /\ [][NextStream]_vars

\* The Valid mask as the file has it.
ValidOfFile == BitsOfBytes(Slice(buffer, 8, 8))

\* C23: in a loaded stream Valid has no bit above 0x2C and no bit that
\* numbers no table, and as many row counts were read as Valid has bits; an
\* input with such a bit yields no loaded stream.
C23_ValidBits ==
    pc = "tables_loaded" =>
        /\ \A b \in ValidOfFile : b <= 44 /\ from_u32(b) # None
        /\ header.valid = ValidOfFile
        /\ Len(header.rows) = Cardinality(ValidOfFile)
        /\ \A i \in 1..Len(header.rows) :
              header.rows[i] = from_le_bytes(Slice(buffer, 20 + 4 * i, 4))

\* A stream with the bits of TypeDef and AssemblyRef loaded, from two row
\* counts.
C23_Witness ==
    /\ pc = "tables_loaded"
    /\ ValidOfFile = {2, 35}
    /\ Len(header.rows) = 2 /\ header.rows[1] = MaxRows

(***************************************************************************)
(* streams.rs BlobStream::from and UserStringStream::from, one entry per   *)
(* step.  The buffer starts at the first byte of the stream.               *)
(***************************************************************************)
\* A usize length as a number; no buffer of the model holds 65536 bytes.
LengthOf(length) == IF length[1] = 0 THEN length[2] ELSE 65536

\* One turn of the loop of BlobStream::from.
BlobEntry(buf, pos, cnt, checks) ==
    LET r == read_blob_length(buf, pos, checks)
    IN  IF r.out.tag # "Ok" THEN [out |-> r.out, position |-> r.position]
        ELSE LET length == LengthOf(r.out.value.length)
             IN  IF ~CanRead(buf, r.position, length)
                 THEN [out |-> Panic("unwrap on UnexpectedEof"),
                       position |-> Len(buf)]
                 ELSE [out |-> Ok([key |-> cnt,
                                   value |-> Slice(buf, r.position, length),
                                   count |-> cnt + r.out.value.bytes_read + length]),
                       position |-> r.position + length]

\* One turn of the loop of UserStringStream::from: length / 2 code units
\* are read, and count moves on by the prefix and the whole length.
UserStringEntry(buf, pos, cnt, checks) ==
    LET r == read_blob_length(buf, pos, checks)
    IN  IF r.out.tag # "Ok" THEN [out |-> r.out, position |-> r.position]
        ELSE LET length == LengthOf(r.out.value.length)
                 units == length \div 2
             IN  IF ~CanRead(buf, r.position, 2 * units)
                 THEN [out |-> Err("UnexpectedEof"), position |-> Len(buf)]
                 ELSE [out |-> Ok([key |-> cnt,
                                   value |-> [i \in 1..units |->
                                      u16_from_le_bytes(buf, r.position + 2 * (i - 1))],
                                   count |-> cnt + r.out.value.bytes_read + length]),
                       position |-> r.position + 2 * units]

(***************************************************************************)
(* SpecHeaps: the #Blob or the #US stream is loaded from its bytes.        *)
(***************************************************************************)
MaxHeap == 4

\* Lengths 0 to 3, a letter, and the first byte of a two-byte length.
HeapBytes == {0, 1, 2, 3, 65, 128}

InitHeaps ==
    /\ pc = "heap_loop"
    /\ buffer \in SeqsUpTo(HeapBytes, MaxHeap)
    /\ position = 0
    /\ header \in [name : {"#Blob", "#US"}, size : 0..MaxHeap]
    /\ count = 0
    /\ strings = EmptyMap
    /\ ret = None
    /\ overflow_checks \in BOOLEAN
    /\ CtxIdle /\ TablesIdle /\ image = EmptyMap /\ metadata = EmptyMap

HeapStep(op, r) ==
    /\ position' = r.position
    /\ IF r.out.tag = "Ok"
       THEN /\ strings' = Insert(strings, r.out.value.key, r.out.value.value)
            /\ count' = r.out.value.count
            /\ UNCHANGED <<pc, ret>>
       ELSE /\ pc' = "failed"
            /\ ret' = [op |-> op, out |-> r.out]
            /\ UNCHANGED <<strings, count>>
    /\ UNCHANGED <<buffer, overflow_checks, loadVars, ctxVars, tables>>

BlobStreamFromStep ==
    /\ pc = "heap_loop" /\ header.name = "#Blob"
    /\ count < header.size
    /\ HeapStep("BlobStream::from",
                BlobEntry(buffer, position, count, overflow_checks))

UserStringStreamFromStep ==
    /\ pc = "heap_loop" /\ header.name = "#US"
    /\ count < header.size
    /\ HeapStep("UserStringStream::from",
                UserStringEntry(buffer, position, count, overflow_checks))

HeapStreamFromDone ==
    /\ pc = "heap_loop"
    /\ count >= header.size
    /\ pc' = "heap_loaded"
    /\ ret' = [op |-> header.name, out |-> Ok("stream")]
    /\ UNCHANGED <<cursorVars, heapVars, loadVars, ctxVars, tables>>

NextHeaps == BlobStreamFromStep \/ UserStringStreamFromStep \/ HeapStreamFromDone

SpecHeaps == InitHeaps /\ [][NextHeaps]_vars

\* The entry whose one-byte length prefix N is at offset k: N bytes for
\* #Blob, N / 2 code units for #US.
EntryOfPrefixAt(k) ==
    LET N == buffer[k + 1]
    IN  IF header.name = "#Blob" THEN Slice(buffer, k + 1, N)
        ELSE [i \in 1..(N \div 2) |-> u16_from_le_bytes(buffer, k + 1 + 2 * (i - 1))]

\* C24: every entry of the #Blob and #US heaps is stored under the offset
\* of the first byte of its length prefix, and the next entry is read at
\* its own length prefix: the cursor is at the offset the next key will be.
C24_KeyIsPrefixOffset ==
    pc \in {"heap_loop", "heap_loaded"} =>
        /\ position = count
        /\ \A k \in DOMAIN strings :
              (k < Len(buffer) /\ buffer[k + 1] < 128) =>
                  strings[k] = EntryOfPrefixAt(k)

\* C24 for the #Blob heap alone.
C24_BlobKeyIsPrefixOffset ==
    (pc \in {"heap_loop", "heap_loaded"} /\ header.name = "#Blob") =>
        /\ position = count
        /\ \A k \in DOMAIN strings :
              (k < Len(buffer) /\ buffer[k + 1] < 128) =>
                  strings[k] = EntryOfPrefixAt(k)

\* C24, as the code has it for #US: after an entry of odd length N the
\* cursor is one byte short of the next key, the terminal byte unread.
C24_UserStringCursorBehind ==
    (pc \in {"heap_loop", "heap_loaded"} /\ header.name = "#US") =>
        /\ position <= count
        /\ count - position <= Cardinality(DOMAIN strings)

(***************************************************************************)
(* headers.rs: the metadata root (MetadataHeader::from) and its stream     *)
(* headers (StreamHeader::from).                                           *)
(***************************************************************************)
\* StreamHeader::from: offset, size, the name up to and including its
\* terminator, then 4 - (name.len() % 4) bytes of padding, counted with the
\* terminator in the name; the terminator is popped afterwards.
StreamHeaderFrom(buf, pos) ==
    IF ~CanRead(buf, pos, 8)
    THEN [out |-> Err("UnexpectedEof"), position |-> pos]
    ELSE LET name == read_until(buf, pos + 8)
             at == pos + 8 + Len(name)
             padding == 4 - (Len(name) % 4)
         IN  IF ~CanRead(buf, at, padding)
             THEN [out |-> Err("UnexpectedEof"), position |-> at]
             ELSE IF ~from_utf8_ok(SubSeq(name, 1, Len(name) - 1))
             THEN [out |-> Panic("unwrap on FromUtf8Error"),
                   position |-> at + padding]
             ELSE [out |-> Ok([offset |-> u32_from_le_bytes(buf, pos),
                               size |-> u32_from_le_bytes(buf, pos + 4),
                               name |-> SubSeq(name, 1, Len(name) - 1)]),
                   position |-> at + padding]

\* MetadataHeader::from up to the stream count: signature (asserted),
\* versions, reserved, length, `length` bytes of version, length % 4 bytes
\* of padding, flags, streams.
MetadataHeaderFrom(buf, pos) ==
    IF ~CanRead(buf, pos, 4)
    THEN [out |-> Err("UnexpectedEof"), position |-> pos]
    ELSE IF u32_from_le_bytes(buf, pos) # U32(1112167234)
    THEN [out |-> Panic("Invalid metadata signature"), position |-> pos + 4]
    ELSE IF ~CanRead(buf, pos, 16)
    THEN [out |-> Err("UnexpectedEof"), position |-> pos + 4]
    ELSE LET length == u32_from_le_bytes(buf, pos + 12)
             n == LengthOf(length)
             padding == n % 4
         IN  IF ~CanRead(buf, pos + 16, n)
             THEN [out |-> Err("UnexpectedEof"), position |-> pos + 16]
             ELSE IF ~from_utf8_ok(Slice(buf, pos + 16, n))
             THEN [out |-> Panic("unwrap on FromUtf8Error"),
                   position |-> pos + 16 + n]
             ELSE IF ~CanRead(buf, pos + 16 + n, padding + 4)
             THEN [out |-> Err("UnexpectedEof"), position |-> pos + 16 + n]
             ELSE [out |-> Ok([length |-> length,
                               version |-> Slice(buf, pos + 16, n),
                               flags |-> u16_from_le_bytes(buf, pos + 16 + n + padding),
                               streams |-> u16_from_le_bytes(buf, pos + 18 + n + padding),
                               stream_headers |-> <<>>]),
                   position |-> pos + 20 + n + padding]

(***************************************************************************)
(* SpecRoot: a metadata root is read from its bytes, the root first and    *)
(* then one stream header per step.                                        *)
(***************************************************************************)
MaxVersion == 4
MaxHeaders == 2

\* "#~", "#US", "#Blob", "#Schema", "#Strings"
StreamNames ==
    {<<35, 126>>, <<35, 85, 83>>, <<35, 66, 108, 111, 98>>,
     <<35, 83, 99, 104, 101, 109, 97>>,
     <<35, 83, 116, 114, 105, 110, 103, 115>>}

\* n rounded up to a multiple of 4
RoundUp4(n) == 4 * ((n + 3) \div 4)

\* A stream header as a writer lays it out: the name, its terminator, and
\* zeros up to the next 4-byte boundary.
StreamHeaderBytes(name) ==
    LE32(U32(108)) \o LE32(U32(4)) \o name
        \o Zeros(RoundUp4(Len(name) + 1) - Len(name))

RECURSIVE StreamHeadersBytes(_)
StreamHeadersBytes(names) ==
    IF names = <<>> THEN <<>>
    ELSE StreamHeaderBytes(Head(names)) \o StreamHeadersBytes(Tail(names))

\* A root as a writer lays it out: L bytes of version "vvv.." and zeros up
\* to the next 4-byte boundary, flags 0, the stream count, the headers.
RootBytes(signature, L, names) ==
    LE32(U32(signature)) \o LE16(1) \o LE16(1) \o LE32(U32(0)) \o LE32(U32(L))
        \o [i \in 1..L |-> 118] \o Zeros(RoundUp4(L) - L)
        \o LE16(0) \o LE16(Len(names)) \o StreamHeadersBytes(names)

\* Roots of every version length and up to MaxHeaders stream headers, whole
\* or cut short, and one with a wrong signature.
RootFiles ==
    {SubSeq(RootBytes(1112167234, L, names), 1,
            Len(RootBytes(1112167234, L, names)) - cut) :
        <<L, names, cut>> \in
            (0..MaxVersion) \X SeqsUpTo(StreamNames, MaxHeaders) \X {0, 1}}
        \cup {RootBytes(0, 0, <<>>)}

InitRoot ==
    /\ pc = "root_start"
    /\ buffer \in RootFiles
    /\ position = 0
    /\ header = <<>>
    /\ count = 0
    /\ ret = None
    /\ overflow_checks = FALSE
    /\ CtxIdle /\ TablesIdle /\ strings = EmptyMap
    /\ image = EmptyMap /\ metadata = EmptyMap

ReadRoot ==
    /\ pc = "root_start"
    /\ LET r == MetadataHeaderFrom(buffer, position)
       IN  /\ position' = r.position
           /\ IF r.out.tag = "Ok"
              THEN /\ header' = r.out.value
                   /\ pc' = "stream_headers"
                   /\ UNCHANGED ret
              ELSE /\ Fail("MetadataHeader::from", r.out)
                   /\ UNCHANGED header
    /\ UNCHANGED <<buffer, overflow_checks, count, strings, image, metadata,
                   ctxVars, tables>>

\* for _ in 0..streams { stream_headers.push(StreamHeader::from(buffer)?) }
ReadStreamHeaderStep ==
    /\ pc = "stream_headers"
    /\ count < header.streams
    /\ LET r == StreamHeaderFrom(buffer, position)
       IN  /\ position' = r.position
           /\ IF r.out.tag = "Ok"
              THEN /\ header' = [header EXCEPT !.stream_headers =
                                    Append(@, r.out.value)]
                   /\ count' = count + 1
                   /\ UNCHANGED <<pc, ret>>
              ELSE /\ Fail("StreamHeader::from", r.out)
                   /\ UNCHANGED <<header, count>>
    /\ UNCHANGED <<buffer, overflow_checks, strings, image, metadata, ctxVars,
                   tables>>

RootDone ==
    /\ pc = "stream_headers"
    /\ count >= header.streams
    /\ pc' = "root_read"
    /\ ret' = [op |-> "MetadataHeader::from", out |-> Ok("MetadataHeader")]
    /\ UNCHANGED <<cursorVars, heapVars, loadVars, ctxVars, tables>>

NextRoot == ReadRoot \/ ReadStreamHeaderStep \/ RootDone

SpecRoot == InitRoot /\ [][NextRoot]_vars

\* A stream header was read in this step.
StreamHeaderRead == pc = "stream_headers" /\ count' = count + 1

\* C25: reading the header of a stream whose name has n characters takes
\* 8 + 4 * ceil((n + 1) / 4) bytes, and the stored name is the name
\* without its terminator.
C25_StreamHeaderSize ==
    [][StreamHeaderRead =>
        /\ position' = position + 8 + RoundUp4(Len(EntryAt(position + 8)) + 1)
        /\ header'.stream_headers[count'].name = EntryAt(position + 8)]_vars

\* C25, as the code has it: the padding is 4 - ((n + 1) % 4) bytes, four
\* bytes where the terminator ends on a boundary; the name is stored
\* without its terminator.
C25_StreamHeaderSizeRead ==
    [][StreamHeaderRead =>
        /\ position' = position + 8 + 4 * ((Len(EntryAt(position + 8)) + 1) \div 4) + 4
        /\ header'.stream_headers[count'].name = EntryAt(position + 8)]_vars

\* The version length the root declares.
DeclaredLength == from_le_bytes(Slice(buffer, 12, 4))

\* C26: the version and its padding take the declared length L rounded up
\* to a multiple of 4, so the flags are read at offset 16 + 4 * ceil(L / 4)
\* and the cursor is 4 bytes further once flags and streams are read.
C26_VersionPadding ==
    (pc = "stream_headers" /\ count = 0) =>
        position = 16 + RoundUp4(DeclaredLength) + 4

\* C26, as the code has it: L bytes of version and L % 4 bytes of padding.
C26_VersionPaddingRead ==
    (pc = "stream_headers" /\ count = 0) =>
        position = 16 + DeclaredLength + (DeclaredLength % 4) + 4

(***************************************************************************)
(* The place of the PE signature.                                          *)
(***************************************************************************)
\* The lfanew dword at offset 0x3C of the file.
Lfanew == u32_from_le_bytes(buffer, 60)

\* C29: in an image that passes the DOS-stub check the PE signature, with
\* the PE file header right after it, is read at the file offset lfanew.
C29_SignatureAtLfanew ==
    pc = "dos_stub_read" => U32(position - 4) = Lfanew

\* C29, as the code has it: the signature is the four bytes after the 128
\* bytes of the stub, whatever lfanew holds.
C29_SignatureAfterStub ==
    pc = "dos_stub_read" =>
        /\ position = DOS_STUB_SIZE + 4
        /\ Slice(buffer, DOS_STUB_SIZE, 4) = PE_SIGNATURE

(***************************************************************************)
(* The wire widths of the operands.                                        *)
(***************************************************************************)
\* The tabulated width of an operand kind; N is the leading count of a
\* switch.
TabulatedWidth(kind, N) ==
    CASE kind = "InlineNone" -> 0
      [] kind \in {"ShortInlineI", "ShortInlineVar", "ShortInlineBrTarget"} -> 1
      [] kind = "InlineVar" -> 2
      [] kind \in {"InlineI", "InlineBrTarget", "ShortInlineR", "InlineField",
                   "InlineMethod", "InlineSig", "InlineString", "InlineTok",
                   "InlineType"} -> 4
      [] kind \in {"InlineI8", "InlineR"} -> 8
      [] kind = "InlineSwitch" -> 4 + 4 * N

\* The bytes the k-th instruction of the body took after its opcode bytes.
OperandBytesTaken(k) ==
    LET i == image.body[k]
        next == IF k < Len(image.body) THEN image.body[k + 1].offset ELSE position
    IN  next - i.offset - OpcodeLength(i)

\* The u32 that follows the opcode bytes of the k-th instruction.
CountAfterOpcode(k) ==
    LET at == image.body[k].offset + OpcodeLength(image.body[k])
    IN  IF CanRead(buffer, at, 4) THEN from_le_bytes(Slice(buffer, at, 4)) ELSE 0

\* C27: every decoded instruction took exactly the tabulated width of its
\* operand kind after its opcode bytes, a switch 4 + 4 * N for the count N
\* it starts with.
C27_OperandWidths ==
    (pc \in {"decoding", "body_decoded"}) =>
        \A k \in 1..Len(image.body) :
            OperandBytesTaken(k) =
                TabulatedWidth(CodeMetadata(image.body[k].opcode.code).operand,
                               CountAfterOpcode(k))

\* A switch of one target took 8 bytes and an InlineVar operand 2.
C27_Witness ==
    /\ pc = "body_decoded"
    /\ \E k \in 1..Len(image.body) :
          /\ image.body[k].opcode.code = "Switch"
          /\ CountAfterOpcode(k) = 1 /\ OperandBytesTaken(k) = 8
    /\ \E k \in 1..Len(image.body) :
          /\ image.body[k].opcode.code = "Ldloc" /\ OperandBytesTaken(k) = 2

(***************************************************************************)
(* The bytes the #Strings load consumes.                                   *)
(***************************************************************************)
\* The sum of the lengths of the entries read: each entry is keyed by the
\* running count at its end, so the lengths add up to the largest key.
EntriesLength ==
    IF DOMAIN strings = {} THEN 0
    ELSE CHOOSE k \in DOMAIN strings : \A j \in DOMAIN strings : j <= k

\* C28: a finished #Strings load has consumed exactly the declared size:
\* the entries' lengths add up to header.size and the cursor stands at the
\* stream's start plus size.
C28_ConsumesDeclaredSize ==
    (pc = "strings_loaded") =>
        /\ EntriesLength = header.size
        /\ position = header.size

\* What the loop does guarantee: the cursor stands at the running count,
\* which has reached the declared size or gone past it, and the last entry
\* read began below the declared size.
C28_ConsumesAtLeastSize ==
    (pc = "strings_loaded") =>
        /\ position = count /\ count >= header.size
        /\ EntriesLength = count
        /\ \A k \in DOMAIN strings : k - Len(strings[k]) < header.size

(***************************************************************************)
(* decode.rs TableDecodeContext::get_index: the ordinal of the next row.   *)
(***************************************************************************)
\* One counter for all kinds, kept under the key "Module".
GetIndexShared(tracker, kind) ==
    LET index == IF "Module" \in DOMAIN tracker THEN tracker["Module"] ELSE 1
    IN  [index |-> index, index_tracker |-> Insert(tracker, "Module", index + 1)]

\* let index = *index_tracker.get(&kind).unwrap_or(&1);
\* index_tracker.insert(kind, index + 1); index
get_index(tracker, kind) ==
    LET index == IF kind \in DOMAIN tracker THEN tracker[kind] ELSE 1
    IN  [index |-> index, index_tracker |-> Insert(tracker, kind, index + 1)]

(***************************************************************************)
(* SpecRows: rows of several tables decoded in any interleaving, each row  *)
(* taking its ordinal from get_index.                                      *)
(***************************************************************************)
MaxCalls == 5
IndexedKinds == {"Module", "TypeDef", "MethodDef", "Assembly"}

RowsOf(tbls, kind) == IF kind \in DOMAIN tbls THEN tbls[kind] ELSE <<>>

\* The rows decoded so far, over all kinds.
RowsDecoded ==
    Cardinality(UNION {{<<kind, n>> : n \in 1..Len(tables[kind])} :
                           kind \in DOMAIN tables})

\* TableDecodeContext::new leaves index_tracker empty.
InitRows ==
    /\ pc = "ready"
    /\ row_count = EmptyMap
    /\ coded_index_sizes = compute_coded_index_sizes(EmptyMap)
    /\ index_tracker = EmptyMap
    /\ tables = EmptyMap
    /\ ret = None
    /\ CursorIdle /\ HeapIdle /\ LoadIdle

\* A row of the table is decoded: it takes get_index(kind) as its ordinal
\* and joins the rows of its table.
ReadRow(kind) ==
    /\ pc \in {"ready", "row_read"}
    /\ RowsDecoded < MaxCalls
    /\ LET r == get_index(index_tracker, kind)
       IN  /\ index_tracker' = r.index_tracker
           /\ tables' = Insert(tables, kind,
                               Append(RowsOf(tables, kind), [index |-> r.index]))
           /\ ret' = [op |-> "get_index", arg |-> kind, out |-> r.index]
    /\ pc' = "row_read"
    /\ UNCHANGED <<row_count, coded_index_sizes, cursorVars, heapVars, loadVars>>

NextRows == \E kind \in IndexedKinds : ReadRow(kind)

SpecRows == InitRows /\ [][NextRows]_vars

\* C30: for every kind on its own, the n-th call of get_index(kind) returned
\* n whatever calls for other kinds came between, so the rows of a table
\* carry the ordinals 1, 2, 3, ... in decode order and the ordinal just
\* returned is the number of rows decoded so far for its kind.
C30_OrdinalsPerKind ==
    /\ \A kind \in DOMAIN tables :
          \A n \in 1..Len(tables[kind]) : tables[kind][n].index = n
    /\ (pc = "row_read") => ret.out = Len(tables[ret.arg])

\* Two kinds decoded in turn, each with its own ordinals 1 and 2.
C30_Witness ==
    /\ pc = "row_read"
    /\ ret.arg = "TypeDef" /\ ret.out = 2
    /\ Len(RowsOf(tables, "MethodDef")) = 2
    /\ Len(RowsOf(tables, "TypeDef")) = 2

====
